---- MODULE Spec2Model ----
(***************************************************************************)
(* django-restql: the query language (parser.py) and the consumers of the  *)
(* parsed Query (mixins.py).                                               *)
(*                                                                         *)
(* A query text is a sequence of one-character strings.  The grammar       *)
(* classes of parser.py are parsing-expression operators over (text,       *)
(* position); each returns a record whose `ok` says whether it matched and *)
(* whose `pos` is the position after the match.  QueryParser turns the     *)
(* parse tree into Query records.                                          *)
(***************************************************************************)
EXTENDS Integers, Sequences, FiniteSets, TLC

(***************************************************************************)
(* Bounds of the model.                                                    *)
(***************************************************************************)
\* items (fields, exclusions, wildcards, parents) written in one query
MaxItems == 2
\* arguments written in one query
MaxArgs == 2
\* characters of a raw argument value drawn from ValueAlphabet
MaxValLen == 4
\* operations written in the payload of one nested field
MaxOps == 2
\* data validated one after another by one foreign key nested field
MaxValidations == 3
\* calls of get_parsed_restql_query_from_req within one request
MaxCalls == 3

(***************************************************************************)
(* Characters.                                                             *)
(***************************************************************************)
Digits == {"0", "1"}
Letters == {"a", "b", "c", "d", "k", "s", "x", "t", "r", "u", "e", "f", "l", "n"}
\* what the regular expression \w matches
WordChars == Letters \cup Digits
\* what the regular expression \s matches
Whitespace == {" "}

DigitValue(c) == IF c = "1" THEN 1 ELSE 0

RECURSIVE Join(_, _, _)
\* text[i:j] as a string: positions i .. j-1
Join(s, i, j) == IF i >= j THEN "" ELSE s[i] \o Join(s, i + 1, j)

RECURSIVE RunEnd(_, _, _)
\* first position >= i whose character is not in `class`
RunEnd(s, i, class) ==
    IF i <= Len(s) /\ s[i] \in class THEN RunEnd(s, i + 1, class) ELSE i

RECURSIVE DigitsValue(_, _, _)
\* the number written by the digits at positions i .. j-1
DigitsValue(s, i, j) ==
    IF i >= j THEN 0 ELSE DigitsValue(s, i, j - 1) * 10 + DigitValue(s[j - 1])

RECURSIVE StartsWith(_, _, _)
StartsWith(s, i, lit) ==
    \/ lit = <<>>
    \/ /\ i <= Len(s)
       /\ s[i] = Head(lit)
       /\ StartsWith(s, i + 1, Tail(lit))

(***************************************************************************)
(* Python values of arguments: bool, None, int, float, str.                *)
(* A float is num / 10^scale with trailing zeros of the fraction removed.  *)
(***************************************************************************)
PyBool(b) == [type |-> "bool", num |-> IF b THEN 1 ELSE 0, scale |-> 0, str |-> ""]
PyNone == [type |-> "NoneType", num |-> 0, scale |-> 0, str |-> ""]
PyInt(n) == [type |-> "int", num |-> n, scale |-> 0, str |-> ""]
PyStr(t) == [type |-> "str", num |-> 0, scale |-> 0, str |-> t]

RECURSIVE PyFloat(_, _)
PyFloat(n, scale) ==
    IF scale > 0 /\ n % 10 = 0
    THEN PyFloat(n \div 10, scale - 1)
    ELSE [type |-> "float", num |-> n, scale |-> scale, str |-> ""]

(***************************************************************************)
(* Python dicts, in insertion order: a sequence of [key, value] records    *)
(* with distinct keys.                                                     *)
(***************************************************************************)
DictKeys(d) == {d[i].key : i \in DOMAIN d}
DictValues(d) == {d[i].value : i \in DOMAIN d}
DictHas(d, k) == k \in DictKeys(d)
DictIndex(d, k) == CHOOSE i \in DOMAIN d : d[i].key = k
\* d.get(k, default)
DictGet(d, k, default) == IF DictHas(d, k) THEN d[DictIndex(d, k)].value ELSE default
\* d[k] = v, also d.update({k: v})
DictSet(d, k, v) ==
    IF DictHas(d, k)
    THEN [d EXCEPT ![DictIndex(d, k)] = [key |-> k, value |-> v]]
    ELSE Append(d, [key |-> k, value |-> v])
\* d.pop(k) of a key that is present
DictPop(d, k) == SelectSeq(d, LAMBDA e : e.key # k)

RECURSIVE DictUpdate(_, _)
\* d.update(other)
DictUpdate(d, other) ==
    IF other = <<>> THEN d
    ELSE DictUpdate(DictSet(d, Head(other).key, Head(other).value), Tail(other))

(***************************************************************************)
(* pypeg2 primitives used by the grammar of parser.py.                     *)
(* The result of a grammar element is handed on as the argument of a local *)
(* operator, which reads its `ok`, `pos` and node.                         *)
(***************************************************************************)
NoMatch == [ok |-> FALSE, pos |-> 0]

\* automatic whitespace skipping before every grammar element
Skip(s, i) == RunEnd(s, i, Whitespace)

\* a literal character, e.g. '{' or ':'
Literal(s, i, c) ==
    LET at(j) == IF j <= Len(s) /\ s[j] = c
                 THEN [ok |-> TRUE, pos |-> j + 1]
                 ELSE NoMatch
    IN  at(Skip(s, i))

\* optional(c) for a literal character c
OptionalLiteral(s, i, c) ==
    LET or_nothing(m) == IF m.ok THEN m ELSE [ok |-> TRUE, pos |-> i]
    IN  or_nothing(Literal(s, i, c))

\* name(): a Symbol, the regular expression \w+ ; `skip` is FALSE inside
\* contiguous(...)
Symbol(s, i, skip) ==
    LET word(j, k) == IF k > j
                      THEN [ok |-> TRUE, pos |-> k, name |-> Join(s, j, k)]
                      ELSE [ok |-> FALSE, pos |-> 0, name |-> ""]
        from(j) == word(j, RunEnd(s, j, WordChars))
    IN  from(IF skip THEN Skip(s, i) ELSE i)

\* a separator that is the comma alone: separator=','
Separator_comma(s, i) == Literal(s, i, ",")

\* separator=[',', '']: a comma or nothing
Separator(s, i) == OptionalLiteral(s, i, ",")

(***************************************************************************)
(* Argument values.                                                        *)
(***************************************************************************)
RECURSIVE Pow10(_)
Pow10(n) == IF n = 0 THEN 1 ELSE 10 * Pow10(n - 1)

\* a number pattern without the fraction: [-+]?[0-9]+
NumberRegexEnd_integer(s, j) ==
    LET digits(k, d) == IF d > k THEN d ELSE 0
        sign(k) == digits(k, RunEnd(s, k, Digits))
    IN  sign(IF j <= Len(s) /\ s[j] \in {"-", "+"} THEN j + 1 ELSE j)

\* [-+]?[0-9]*\.?[0-9]+ matched at position j: the position after the match,
\* or 0 when there is no match
NumberRegexEnd(s, j) ==
    LET fraction(k, d, f) == IF f > d + 1 THEN f
                             ELSE IF d > k THEN d
                             ELSE 0
        digits(k, d) ==
            fraction(k, d, IF d <= Len(s) /\ s[d] = "."
                           THEN RunEnd(s, d + 1, Digits)
                           ELSE d)
        sign(k) == digits(k, RunEnd(s, k, Digits))
    IN  sign(IF j <= Len(s) /\ s[j] \in {"-", "+"} THEN j + 1 ELSE j)

\* true|false|null|[-+]?[0-9]*\.?[0-9]+ matched at position j
ArgumentWithoutQuotesRegexEnd(s, j) ==
    IF StartsWith(s, j, <<"t", "r", "u", "e">>) THEN j + 4
    ELSE IF StartsWith(s, j, <<"f", "a", "l", "s", "e">>) THEN j + 5
    ELSE IF StartsWith(s, j, <<"n", "u", "l", "l">>) THEN j + 4
    ELSE NumberRegexEnd(s, j)

\* ArgumentWithoutQuotes.number of the text at positions j .. k-1:
\* int(val), and float(val) when int raises ValueError
number(s, j, k) ==
    LET sign == IF s[j] = "-" THEN -1 ELSE 1
        float(first, d, scale) ==
            PyFloat(sign * (DigitsValue(s, first, d) * Pow10(scale)
                            + DigitsValue(s, d + 1, k)), scale)
        int_or_float(first, dots) ==
            IF dots = {}
            THEN PyInt(sign * DigitsValue(s, first, k))
            ELSE float(first, CHOOSE x \in dots : TRUE, k - 1 - (CHOOSE x \in dots : TRUE))
        unsigned(first) == int_or_float(first, {d \in first .. (k - 1) : s[d] = "."})
    IN  unsigned(IF s[j] \in {"-", "+"} THEN j + 1 ELSE j)

\* ArgumentWithoutQuotes.value of the raw text at positions j .. k-1
ArgumentWithoutQuotes_value(s, j, k) ==
    LET fixed(raw_val) ==
            IF raw_val = "true" THEN PyBool(TRUE)
            ELSE IF raw_val = "false" THEN PyBool(FALSE)
            ELSE IF raw_val = "null" THEN PyNone
            ELSE number(s, j, k)
    IN  fixed(Join(s, j, k))

RECURSIVE QuotedBodyEnd(_, _, _)
\* ([^q\\]|\\.|\\\n)* followed by the quote q, matched at position j: the
\* position of the closing quote, or 0 when the text ends first
QuotedBodyEnd(s, j, q) ==
    IF j > Len(s) THEN 0
    ELSE IF s[j] = q THEN j
    ELSE IF s[j] = "\\"
         THEN IF j + 1 > Len(s) THEN 0 ELSE QuotedBodyEnd(s, j + 2, q)
    ELSE QuotedBodyEnd(s, j + 1, q)

\* "..."|'...' matched at position j: the position after the closing quote,
\* or 0 when there is no match
ArgumentWithQuotesRegexEnd(s, j) ==
    LET closed(c) == IF c = 0 THEN 0 ELSE c + 1
    IN  IF j <= Len(s) /\ s[j] \in {"\"", "'"}
        THEN closed(QuotedBodyEnd(s, j + 1, s[j]))
        ELSE 0

\* ArgumentWithQuotes.value: self[0][1:-1]
ArgumentWithQuotes_value(s, j, k) == PyStr(Join(s, j + 1, k - 1))

\* grammar = name(), ':', re.compile(...)
ArgumentWithoutQuotes(s, i) ==
    LET matched(n, j, k) ==
            IF k = 0 THEN NoMatch
            ELSE [ok |-> TRUE, pos |-> k,
                  node |-> [name |-> n.name,
                            value |-> ArgumentWithoutQuotes_value(s, j, k)]]
        raw(n, j) == matched(n, j, ArgumentWithoutQuotesRegexEnd(s, j))
        colon(n, c) == IF ~c.ok THEN NoMatch ELSE raw(n, Skip(s, c.pos))
        named(n) == IF ~n.ok THEN NoMatch ELSE colon(n, Literal(s, n.pos, ":"))
    IN  named(Symbol(s, i, TRUE))

ArgumentWithQuotes(s, i) ==
    LET matched(n, j, k) ==
            IF k = 0 THEN NoMatch
            ELSE [ok |-> TRUE, pos |-> k,
                  node |-> [name |-> n.name,
                            value |-> ArgumentWithQuotes_value(s, j, k)]]
        raw(n, j) == matched(n, j, ArgumentWithQuotesRegexEnd(s, j))
        colon(n, c) == IF ~c.ok THEN NoMatch ELSE raw(n, Skip(s, c.pos))
        named(n) == IF ~n.ok THEN NoMatch ELSE colon(n, Literal(s, n.pos, ":"))
    IN  named(Symbol(s, i, TRUE))

\* the choice [ArgumentWithoutQuotes, ArgumentWithQuotes]
Argument(s, i) ==
    LET or_quoted(a) == IF a.ok THEN a ELSE ArgumentWithQuotes(s, i)
    IN  or_quoted(ArgumentWithoutQuotes(s, i))

RECURSIVE ArgumentsMore(_, _, _)
\* the repetition of csl: (separator, argument)*
ArgumentsMore(s, i, acc) ==
    LET more(a) == IF a.ok
                   THEN ArgumentsMore(s, a.pos, Append(acc, a.node))
                   ELSE [ok |-> TRUE, pos |-> i, list |-> acc]
        separated(sep) == more(IF sep.ok THEN Argument(s, sep.pos) ELSE NoMatch)
    IN  separated(Separator(s, i))

\* Arguments: optional(csl([...], separator=[',', '']))
Arguments(s, i) ==
    LET first(a) == IF a.ok
                    THEN ArgumentsMore(s, a.pos, <<a.node>>)
                    ELSE [ok |-> TRUE, pos |-> i, list |-> <<>>]
    IN  first(Argument(s, i))

\* ArgumentsBlock: optional('(', Arguments, optional(','), ')') with its
\* `arguments` property
ArgumentsBlock(s, i) ==
    LET absent == [ok |-> TRUE, pos |-> i, arguments |-> <<>>]
        closed(a, r) == IF r.ok
                        THEN [ok |-> TRUE, pos |-> r.pos, arguments |-> a.list]
                        ELSE absent
        comma(a, c) == closed(a, Literal(s, c.pos, ")"))
        listed(a) == comma(a, OptionalLiteral(s, a.pos, ","))
        opened(l) == IF ~l.ok THEN absent ELSE listed(Arguments(s, l.pos))
    IN  opened(Literal(s, i, "("))

(***************************************************************************)
(* Fields and blocks.  A node of the parse tree is                         *)
(*   [class, name, alias, block]                                           *)
(* with alias "" for None and the empty Block for a field without block;   *)
(* a Block is [arguments, body].                                           *)
(***************************************************************************)
EmptyBlock == [arguments |-> <<>>, body |-> <<>>]

\* IncludedField: optional(Alias), name() with Alias: name(), ':'
\* and its `alias` property
IncludedField(s, i) ==
    LET plain(a) ==
            IF a.ok
            THEN [ok |-> TRUE, pos |-> a.pos,
                  node |-> [class |-> "IncludedField", name |-> a.name,
                            alias |-> "", block |-> EmptyBlock]]
            ELSE NoMatch
        aliased(a, n) ==
            IF n.ok
            THEN [ok |-> TRUE, pos |-> n.pos,
                  node |-> [class |-> "IncludedField", name |-> n.name,
                            alias |-> a.name, block |-> EmptyBlock]]
            ELSE NoMatch
        colon(a, c) == IF c.ok THEN aliased(a, Symbol(s, c.pos, TRUE)) ELSE plain(a)
        first(a) == colon(a, IF a.ok THEN Literal(s, a.pos, ":") ELSE NoMatch)
    IN  first(Symbol(s, i, TRUE))

\* an exclusion whose parts are not contiguous: '-', name()
ExcludedField_spaced(s, i) ==
    LET named(n) ==
            IF n.ok
            THEN [ok |-> TRUE, pos |-> n.pos,
                  node |-> [class |-> "ExcludedField", name |-> n.name,
                            alias |-> "", block |-> EmptyBlock]]
            ELSE NoMatch
        minus(m) == named(IF m.ok THEN Symbol(s, m.pos, TRUE) ELSE NoMatch)
    IN  minus(Literal(s, i, "-"))

\* ExcludedField: contiguous('-', name())
ExcludedField(s, i) ==
    LET named(n) ==
            IF n.ok
            THEN [ok |-> TRUE, pos |-> n.pos,
                  node |-> [class |-> "ExcludedField", name |-> n.name,
                            alias |-> "", block |-> EmptyBlock]]
            ELSE NoMatch
        minus(m) == named(IF m.ok THEN Symbol(s, m.pos, FALSE) ELSE NoMatch)
    IN  minus(Literal(s, i, "-"))

\* AllFields: '*'
AllFields(s, i) ==
    LET star(m) ==
            IF m.ok
            THEN [ok |-> TRUE, pos |-> m.pos,
                  node |-> [class |-> "AllFields", name |-> "*",
                            alias |-> "", block |-> EmptyBlock]]
            ELSE NoMatch
    IN  star(Literal(s, i, "*"))

RECURSIVE Block(_, _)

\* ParentField.grammar = IncludedField, Block
ParentField(s, i) ==
    LET parent(f, b) ==
            IF b.ok
            THEN [ok |-> TRUE, pos |-> b.pos,
                  node |-> [class |-> "ParentField", name |-> f.node.name,
                            alias |-> f.node.alias, block |-> b.node]]
            ELSE NoMatch
        included(f) == parent(f, IF f.ok THEN Block(s, f.pos) ELSE NoMatch)
    IN  included(IncludedField(s, i))

\* the choice [ParentField, IncludedField, ExcludedField, AllFields]
Field(s, i) ==
    LET or_all(x) == IF x.ok THEN x ELSE AllFields(s, i)
        or_excluded(f) == IF f.ok THEN f ELSE or_all(ExcludedField(s, i))
        or_included(p) == IF p.ok THEN p ELSE or_excluded(IncludedField(s, i))
    IN  or_included(ParentField(s, i))

RECURSIVE BlockBodyMore(_, _, _)
\* the repetition of csl: (separator, field)*
BlockBodyMore(s, i, acc) ==
    LET more(f) == IF f.ok
                   THEN BlockBodyMore(s, f.pos, Append(acc, f.node))
                   ELSE [ok |-> TRUE, pos |-> i, list |-> acc]
        separated(sep) == more(IF sep.ok THEN Field(s, sep.pos) ELSE NoMatch)
    IN  separated(Separator(s, i))

\* BlockBody: optional(csl([...], separator=[',', '']))
BlockBody(s, i) ==
    LET first(f) == IF f.ok
                    THEN BlockBodyMore(s, f.pos, <<f.node>>)
                    ELSE [ok |-> TRUE, pos |-> i, list |-> <<>>]
    IN  first(Field(s, i))

\* Block: ArgumentsBlock, '{', BlockBody, optional(','), '}'
Block(s, i) ==
    LET closed(a, b, c) ==
            IF c.ok
            THEN [ok |-> TRUE, pos |-> c.pos,
                  node |-> [arguments |-> a.arguments, body |-> b.list]]
            ELSE NoMatch
        comma(a, b, m) == closed(a, b, Literal(s, m.pos, "}"))
        body(a, b) == comma(a, b, OptionalLiteral(s, b.pos, ","))
        opened(a, o) == IF ~o.ok THEN NoMatch ELSE body(a, BlockBody(s, o.pos))
        arguments(a) == opened(a, Literal(s, a.pos, "{"))
    IN  arguments(ArgumentsBlock(s, i))

\* pypeg2.parse(query, Block): the whole text must be a Block
pypeg2_parse(s) ==
    LET whole(b) == IF b.ok /\ b.pos > Len(s) THEN b ELSE NoMatch
    IN  whole(Block(s, 1))

(***************************************************************************)
(* Query and QueryParser.                                                  *)
(* An element of included_fields is [name, query]: a flat field name (or   *)
(* "*") has query = <<>>, a nested Query q is [name |-> q.field_name,      *)
(* query |-> <<q>>].  field_name "" is None.                               *)
(***************************************************************************)
Query(field_name, included_fields, excluded_fields, aliases, arguments) ==
    [field_name |-> field_name, included_fields |-> included_fields,
     excluded_fields |-> excluded_fields, aliases |-> aliases,
     arguments |-> arguments]

FlatField(name) == [name |-> name, query |-> <<>>]
NestedField(q) == [name |-> q.field_name, query |-> <<q>>]
\* isinstance(field, Query)
IsQuery(field) == field.query # <<>>

NoQuery == Query("", <<>>, <<>>, <<>>, <<>>)
Returned(q) == [raised |-> "", query |-> q]
Raised(error) == [raised |-> error, query |-> NoQuery]

\* a loop that stops after the first argument
block_arguments_first(arguments, acc) ==
    IF arguments = <<>> THEN acc
    ELSE DictSet(acc, Head(arguments).name, Head(arguments).value)

RECURSIVE block_arguments(_, _)
\* the loop over block.arguments
block_arguments(arguments, acc) ==
    IF arguments = <<>> THEN acc
    ELSE block_arguments(Tail(arguments),
                         DictSet(acc, Head(arguments).name, Head(arguments).value))

\* a check that finds only a field aliased to its own name
faulty_fields_own_name(aliases) ==
    {aliases[i].key : i \in {j \in DOMAIN aliases : aliases[j].key = aliases[j].value}}

\* set(aliases.values()) & set(aliases.keys())
faulty_fields(aliases) == DictValues(aliases) \cap DictKeys(aliases)

\* beside exclusions only "*" and the nested Queries are kept
include_rest_only_nested(included_fields, excluded_fields) ==
    IF excluded_fields # <<>>
    THEN <<FlatField("*")>> \o SelectSeq(included_fields, IsQuery)
    ELSE included_fields

\* no "*" is added
include_rest_never(included_fields, excluded_fields) == included_fields

\* the implicit "*" of a block with exclusions
include_rest(included_fields, excluded_fields) ==
    IF excluded_fields # <<>> /\ FlatField("*") \notin {included_fields[i] : i \in DOMAIN included_fields}
    THEN Append(included_fields, FlatField("*"))
    ELSE included_fields

\* the child Query named by the alias of the parent field when it has one
_transform_parent_field_alias(parent_field) ==
    IF parent_field.alias # "" THEN parent_field.alias ELSE parent_field.name

\* the name given to the child Query of a parent field
_transform_parent_field_name(parent_field) == parent_field.name

RECURSIVE _transform_block(_, _)
RECURSIVE transform_body(_, _)

\* the loop over block.body; `query` is the Query built so far
transform_body(body, query) ==
    LET aliases_with(field) ==
            IF field.class \in {"ParentField", "IncludedField"} /\ field.alias # ""
            THEN DictSet(query.aliases, field.name, field.alias)
            ELSE query.aliases
        parent(field, child) ==
            IF child.raised # "" THEN child
            ELSE transform_body(Tail(body),
                   [query EXCEPT !.aliases = aliases_with(field),
                                 !.included_fields = Append(@, NestedField(child.query))])
        each(field) ==
            IF field.class = "ParentField"
            THEN parent(field, _transform_block(field.block,
                                                _transform_parent_field_name(field)))
            ELSE IF field.class = "IncludedField"
            THEN transform_body(Tail(body),
                   [query EXCEPT !.aliases = aliases_with(field),
                                 !.included_fields = Append(@, FlatField(field.name))])
            ELSE IF field.class = "ExcludedField"
            THEN transform_body(Tail(body),
                   [query EXCEPT !.excluded_fields = Append(@, field.name)])
            ELSE transform_body(Tail(body),
                   [query EXCEPT !.included_fields = Append(@, FlatField("*"))])
    IN  IF body = <<>> THEN Returned(query) ELSE each(Head(body))

_transform_block(block, parent_field) ==
    LET checked(query) ==
            IF faulty_fields(query.aliases) # {}
            THEN Raised("QueryFormatError")
            ELSE Returned(query)
        transformed(walked) ==
            IF walked.raised # "" THEN walked
            ELSE checked([walked.query EXCEPT
                             !.included_fields = include_rest(@, walked.query.excluded_fields)])
    IN  transformed(transform_body(block.body,
                                   Query(parent_field, <<>>, <<>>, <<>>,
                                         block_arguments(block.arguments, <<>>))))

\* QueryParser.parse
parse(query) ==
    LET transformed(parse_tree) ==
            IF ~parse_tree.ok THEN Raised("SyntaxError")
            ELSE _transform_block(parse_tree.node, "")
    IN  transformed(pypeg2_parse(query))

(***************************************************************************)
(* DynamicFieldsMixin.select_fields.                                       *)
(* A serializer field is [source, nested, field_name]: the declared field  *)
(* it is, whether it is a Serializer, ListSerializer or                    *)
(* DynamicSerializerMethodField, and the name it is bound to, under which  *)
(* the serializer outputs it.  all_fields is a dict from names to          *)
(* serializer fields (the BindingDict of rest_framework); select_fields    *)
(* changes the dict it is given in place, so its outcome carries the dict  *)
(* as left behind (all_fields) next to what it returns (fields, nested) or *)
(* raises (raised, code).                                                  *)
(***************************************************************************)
\* restql_settings.MAX_ALIAS_LEN, read by is_valid_alias; its default is the
\* entry 'MAX_ALIAS_LEN': 50 of DEFAULTS in settings.py
MAX_ALIAS_LEN == 50

\* is_field_found(field_name, all_field_names, raise_exception=True) passes
is_field_found(field_name, all_fields) == DictHas(all_fields, field_name)

\* is_nested_field(field_name, field, raise_exception=True) passes
is_nested_field(field) == field.nested

\* is_valid_alias(alias) passes
is_valid_alias(alias) == Len(alias) <= MAX_ALIAS_LEN

SelectRaised(code, all_fields) ==
    [raised |-> "ValidationError", code |-> code, fields |-> <<>>,
     nested |-> <<>>, all_fields |-> all_fields]
SelectReturned(fields, nested, all_fields) ==
    [raised |-> "", code |-> "", fields |-> fields, nested |-> nested,
     all_fields |-> all_fields]

\* all_fields[key] = field on a BindingDict: the entry is stored and the field
\* object is bound to the name `key`, whichever keys it is stored under
bind(all_fields, key, field) ==
    LET bound == [field EXCEPT !.field_name = key]
        rebound == [i \in DOMAIN all_fields |->
                       IF all_fields[i].value.source = field.source
                       THEN [all_fields[i] EXCEPT !.value = bound]
                       ELSE all_fields[i]]
    IN  DictSet(rebound, key, bound)

RECURSIVE rename_aliased_fields(_, _)
\* for field, alias in aliases.items(): ... all_fields[alias] = all_fields[field]
rename_aliased_fields(aliases, all_fields) ==
    LET each(field, alias) ==
            IF ~is_field_found(field, all_fields)
            THEN [raised |-> "ValidationError", code |-> "not_found", all_fields |-> all_fields]
            ELSE IF ~is_valid_alias(alias)
            THEN [raised |-> "ValidationError", code |-> "invalid", all_fields |-> all_fields]
            ELSE rename_aliased_fields(Tail(aliases),
                     bind(all_fields, alias, DictGet(all_fields, field, <<>>)))
    IN  IF aliases = <<>> THEN [raised |-> "", code |-> "", all_fields |-> all_fields]
        ELSE each(Head(aliases).key, Head(aliases).value)

RECURSIVE check_included_fields(_, _, _, _)
\* the loop over included_fields: the error it raises, or the lists it builds
check_included_fields(included_fields, parsed_query, all_fields, acc) ==
    LET nested(q, rest) ==
            IF ~is_field_found(q.field_name, all_fields)
            THEN [acc EXCEPT !.code = "not_found"]
            ELSE IF ~is_nested_field(DictGet(all_fields, q.field_name, <<>>))
            THEN [acc EXCEPT !.code = "invalid"]
            ELSE check_included_fields(rest, parsed_query, all_fields,
                     [acc EXCEPT !.allowed_nested_fields =
                         DictSet(@, DictGet(parsed_query.aliases, q.field_name, q.field_name), q)])
        flat(field, rest) ==
            IF ~is_field_found(field.name, all_fields)
            THEN [acc EXCEPT !.code = "not_found"]
            ELSE check_included_fields(rest, parsed_query, all_fields,
                     [acc EXCEPT !.allowed_flat_fields =
                         Append(@, DictGet(parsed_query.aliases, field.name, field.name))])
        each(field, rest) ==
            IF field = FlatField("*")
            THEN check_included_fields(rest, parsed_query, all_fields,
                     [acc EXCEPT !.include_all_fields = TRUE])
            ELSE IF IsQuery(field) THEN nested(field.query[1], rest)
            ELSE flat(field, rest)
    IN  IF included_fields = <<>> THEN acc
        ELSE each(Head(included_fields), Tail(included_fields))

\* the keys of a dict in order: list(d.keys())
DictKeyList(d) == [i \in DOMAIN d |-> d[i].key]

\* len(items) != len(set(items))
has_duplicates(items) == Len(items) # Cardinality({items[i] : i \in DOMAIN items})

RECURSIVE pop_excluded_fields(_, _)
\* for field in excluded_fields: is_field_found(...); all_fields.pop(field)
pop_excluded_fields(excluded_fields, all_fields) ==
    IF excluded_fields = <<>> THEN [code |-> "", all_fields |-> all_fields]
    ELSE IF ~is_field_found(Head(excluded_fields), all_fields)
    THEN [code |-> "not_found", all_fields |-> all_fields]
    ELSE pop_excluded_fields(Tail(excluded_fields),
                             DictPop(all_fields, Head(excluded_fields)))

\* for field in non_selected_fields: all_fields.pop(field)
pop_non_selected_fields(all_fields, all_allowed_fields) ==
    SelectSeq(all_fields, LAMBDA e : e.key \in all_allowed_fields)

select_fields(parsed_query, all_fields) ==
    LET excluded_fields == parsed_query.excluded_fields
        included_fields == parsed_query.included_fields
        excluding(popped, allowed_nested_fields) ==
            IF popped.code # "" THEN SelectRaised(popped.code, popped.all_fields)
            ELSE SelectReturned(popped.all_fields, allowed_nested_fields, popped.all_fields)
        including(kept, allowed_nested_fields) ==
            SelectReturned(kept, allowed_nested_fields, kept)
        selecting(all_renamed, include_all_fields, allowed_flat_fields, allowed_nested_fields) ==
            IF has_duplicates(allowed_flat_fields \o DictKeyList(allowed_nested_fields)
                              \o excluded_fields)
            THEN SelectRaised("invalid", all_renamed)
            ELSE IF excluded_fields # <<>>
            THEN excluding(pop_excluded_fields(excluded_fields, all_renamed),
                           allowed_nested_fields)
            ELSE IF included_fields # <<>> /\ ~include_all_fields
            THEN including(pop_non_selected_fields(all_renamed,
                               {allowed_flat_fields[i] : i \in DOMAIN allowed_flat_fields}
                               \cup DictKeys(allowed_nested_fields)),
                           allowed_nested_fields)
            ELSE IF include_all_fields
            THEN SelectReturned(all_renamed, allowed_nested_fields, all_renamed)
            ELSE SelectReturned(<<>>, allowed_nested_fields, all_renamed)
        checking(all_renamed, checked) ==
            IF checked.code # "" THEN SelectRaised(checked.code, all_renamed)
            ELSE selecting(all_renamed, checked.include_all_fields,
                           checked.allowed_flat_fields, checked.allowed_nested_fields)
        renaming(renamed) ==
            IF renamed.raised # "" THEN SelectRaised(renamed.code, renamed.all_fields)
            ELSE checking(renamed.all_fields,
                          check_included_fields(included_fields, parsed_query, renamed.all_fields,
                              [code |-> "", include_all_fields |-> FALSE,
                               allowed_flat_fields |-> <<>>, allowed_nested_fields |-> <<>>]))
    IN  renaming(rename_aliased_fields(parsed_query.aliases, all_fields))

(***************************************************************************)
(* QueryArgumentsMixin.                                                    *)
(***************************************************************************)
\* Query(field_name=None, included_fields=["*"], excluded_fields=[],
\* aliases={}, arguments={}): the query a mixin falls back to
IncludeAllQuery == Query("", <<FlatField("*")>>, <<>>, <<>>, <<>>)

\* the dict whose keys are those of `arguments`, each after `prefix`
prefixed(arguments, prefix) ==
    [i \in DOMAIN arguments |->
        [key |-> prefix \o arguments[i].key, value |-> arguments[i].value]]

\* build_query_params(field, parent=prefix + field.field_name) with the
\* prefix of a Query whose parent is `parent`; parent = "" stands for None
same_name_prefix(parent, field_name) == field_name
parent_prefix(parent, field_name) ==
    IF parent = "" THEN field_name ELSE parent \o "__" \o field_name

RECURSIVE build_query_params(_, _)
RECURSIVE nested_query_params(_, _, _)
\* the loop over included_fields: query_params.update(nested_query_params)
nested_query_params(included_fields, parent, query_params) ==
    IF included_fields = <<>> THEN query_params
    ELSE IF IsQuery(Head(included_fields))
    THEN nested_query_params(Tail(included_fields), parent,
             DictUpdate(query_params,
                 build_query_params(Head(included_fields).query[1],
                     parent_prefix(parent, Head(included_fields).query[1].field_name))))
    ELSE nested_query_params(Tail(included_fields), parent, query_params)

build_query_params(parsed_query, parent) ==
    nested_query_params(parsed_query.included_fields, parent,
        DictUpdate(<<>>, prefixed(parsed_query.arguments,
                                  IF parent = "" THEN "" ELSE parent \o "__")))

(***************************************************************************)
(* EagerLoadingMixin.                                                      *)
(* A node of the dict of a parsed query is True, False or a dict; a        *)
(* mapping is a dict from dotted keys, kept as their characters, to lists  *)
(* of related fields.                                                      *)
(***************************************************************************)
BoolNode(b) == [isdict |-> FALSE, truth |-> b, dict |-> <<>>]
DictNode(d) == [isdict |-> TRUE, truth |-> d # <<>>, dict |-> d]

RECURSIVE get_dict_parsed_restql_query(_)
RECURSIVE dict_of_included(_, _)
\* for field in parsed_restql_query.included_fields: ...
dict_of_included(included_fields, parsed_query) ==
    IF included_fields = <<>> THEN parsed_query
    ELSE IF IsQuery(Head(included_fields))
    THEN dict_of_included(Tail(included_fields),
             DictSet(parsed_query, Head(included_fields).query[1].field_name,
                     DictNode(get_dict_parsed_restql_query(Head(included_fields).query[1]))))
    ELSE dict_of_included(Tail(included_fields),
             DictSet(parsed_query, Head(included_fields).name, BoolNode(TRUE)))

dict_of_excluded_skipped(excluded_fields, parsed_query) == parsed_query

RECURSIVE dict_of_excluded(_, _)
\* for field in parsed_restql_query.excluded_fields: ... parsed_query[field] = False
dict_of_excluded(excluded_fields, parsed_query) ==
    IF excluded_fields = <<>> THEN parsed_query
    ELSE dict_of_excluded(Tail(excluded_fields),
             DictSet(parsed_query, Head(excluded_fields), BoolNode(FALSE)))

get_dict_parsed_restql_query(parsed_restql_query) ==
    dict_of_excluded(parsed_restql_query.excluded_fields,
        dict_of_included(parsed_restql_query.included_fields, <<>>))

RECURSIVE split(_, _, _)
\* key.split("."): the segments of the characters from position i on, the
\* one being read starting at position `from`
split(key, from, i) ==
    IF i > Len(key) THEN <<Join(key, from, i)>>
    ELSE IF key[i] = "." THEN <<Join(key, from, i)>> \o split(key, i + 1, i + 1)
    ELSE split(key, from, i + 1)

RECURSIVE follow(_, _)
\* the loop `for field in fields` with its else clause: whether the related
\* fields of the key are taken
follow(fields, query_node) ==
    IF fields = <<>> THEN query_node.isdict \/ query_node.truth
    ELSE IF ~query_node.isdict THEN follow(Tail(fields), query_node)
    ELSE IF DictHas(query_node.dict, Head(fields))
    THEN follow(Tail(fields), DictGet(query_node.dict, Head(fields), BoolNode(FALSE)))
    ELSE IF DictHas(query_node.dict, "*") THEN follow(Tail(fields), query_node)
    ELSE FALSE

RECURSIVE get_related_fields(_, _)
get_related_fields(related_fields_mapping, dict_parsed_restql_query) ==
    IF related_fields_mapping = <<>> THEN <<>>
    ELSE (IF follow(split(Head(related_fields_mapping).key, 1, 1),
                    DictNode(dict_parsed_restql_query))
          THEN Head(related_fields_mapping).value ELSE <<>>)
         \o get_related_fields(Tail(related_fields_mapping), dict_parsed_restql_query)

\* the view's select_related and prefetch_related mappings
select_related == << [key |-> <<"b">>, value |-> <<"b">>] >>
prefetch_related ==
    << [key |-> <<"a">>, value |-> <<"a">>],
       [key |-> <<"b", ".", "a">>, value |-> <<"b__a">>] >>

\* apply_eager_loading: the dict of the query, and what is handed to
\* select_related and prefetch_related
apply_eager_loading(parsed_restql_query) ==
    LET related(query) ==
            [query |-> query,
             to_select |-> get_related_fields(select_related, query),
             to_prefetch |-> get_related_fields(prefetch_related, query)]
    IN  related(get_dict_parsed_restql_query(parsed_restql_query))

(***************************************************************************)
(* The state machine: a client writes a query, the request is parsed, and  *)
(* the mixins consume the parsed query: the root serializer selects its    *)
(* fields and its nested serializers theirs, the view injects the          *)
(* arguments as query parameters and chooses the relations to load.        *)
(*                                                                         *)
(* What the client writes is kept as a tree, `written`: a block is         *)
(* [args, items], an argument [name, raw] with raw the characters of its   *)
(* value, an item [kind, name, alias, gap, sub] with kind "field",         *)
(* "excluded" or "all", alias "" for none, gap for whitespace after the    *)
(* `-`, and sub = <<block>> when a block follows the name.  The text sent  *)
(* is the rendering of that tree in one of the separator styles.           *)
(***************************************************************************)
VARIABLES written, depth, query, parsed, allowed_fields, selected, pc,
          message, nested_selected, query_params, related_fields,
          nested_field, payload, validation,
          foreign_key_field, validated, routed,
          relation, db, validated_data, saved,
          django_settings, restql_settings, read, signalled,
          dynamic_fields_mixin_kwargs, request, parses, calls

\* what the consumers of the parsed query leave behind, besides `selected`
derived == <<message, nested_selected, query_params, related_fields>>

\* a request with a query: the text, its Query and what is derived from it
read_side == <<written, depth, query, parsed, allowed_fields, selected, pc, derived>>

\* a request that writes: the nested field declared on the serializer, the
\* data sent for it and the outcome of its validation
write_side == <<nested_field, payload, validation>>

\* a foreign key nested field of a serializer, the data validated by it one
\* after another and where create / update sent the last value
foreign_key_side == <<foreign_key_field, validated, routed>>

\* the database behind a to-many nested field, the validated_data the
\* caller hands to create / update and the outcome of that call
save_side == <<relation, db, validated_data, saved>>

\* the RESTQL setting of the project, the restql_settings object, the last
\* read of a setting and the last setting_changed signal
settings_side == <<django_settings, restql_settings, read, signalled>>
\* the kwargs a serializer was constructed with
serializer_side == <<dynamic_fields_mixin_kwargs>>

\* the request as the mixins leave it, the outcomes of the runs of the parser
\* for it, and the number of calls of get_parsed_restql_query_from_req
request_side == <<request, parses, calls>>

vars == <<read_side, write_side, foreign_key_side, save_side, settings_side, serializer_side,
          request_side>>

\* field names a client writes; "c" is not a field of the serializer
Names == {"a", "b", "c"}
\* the arguments a client writes in a query: a: 1 and k: 's'
ArgNames == {"a", "k"}
ArgsWritten == {[name |-> "a", raw |-> <<"1">>], [name |-> "k", raw |-> <<"'", "s", "'">>]}
\* the characters of the raw argument values tried on the value grammar
ValueAlphabet == {"0", "1", ".", "-", "+", "x", "\"", "'", "\\"}
\* the raw argument values: every text of at most MaxValLen characters, the
\* keywords and some texts around them
RawValues ==
    UNION {[1 .. n -> ValueAlphabet] : n \in 0 .. MaxValLen}
    \cup {<<"t", "r", "u", "e">>, <<"f", "a", "l", "s", "e">>, <<"n", "u", "l", "l">>,
          <<"t", "r", "u">>, <<"t", "r", "u", "e", "x">>, <<"n", "u", "l", "l", "1">>,
          <<"-", "t", "r", "u", "e">>, <<"'", "t", "r", "u", "e", "'">>}
\* separators between the items of a block
Separators == {<<",">>, <<" ">>}
\* aliases a client gives to fields; "" is no alias
Aliases == {"", "a", "c"}

\* field names a client writes to a serializer: "c" is not a field of it
SelectNames == Names \cup {"d"}

\* a field declared as `name` on a serializer, bound to that name
DeclaredField(name, nested) ==
    [key |-> name, value |-> [source |-> name, nested |-> nested, field_name |-> name]]

\* the fields of the serializer: `a` is a flat field, `b` and `d` are nested
\* serializers
SerializerFields ==
    << DeclaredField("a", FALSE), DeclaredField("b", TRUE), DeclaredField("d", TRUE) >>

NoBlock == [args |-> <<>>, items |-> <<>>]
Item(kind, name, alias, gap, sub) ==
    [kind |-> kind, name |-> name, alias |-> alias, gap |-> gap, sub |-> sub]

RECURSIVE CountItems(_)
RECURSIVE CountItemsOf(_)
CountItemsOf(items) ==
    IF items = <<>> THEN 0
    ELSE 1 + (IF Head(items).sub = <<>> THEN 0 ELSE CountItems(Head(items).sub[1]))
           + CountItemsOf(Tail(items))
CountItems(block) == CountItemsOf(block.items)

RECURSIVE CountArgs(_)
RECURSIVE CountArgsOf(_)
CountArgsOf(items) ==
    IF items = <<>> THEN 0
    ELSE (IF Head(items).sub = <<>> THEN 0 ELSE CountArgs(Head(items).sub[1]))
         + CountArgsOf(Tail(items))
CountArgs(block) == Len(block.args) + CountArgsOf(block.items)

RECURSIVE OpenBlockOf(_, _)
\* the block the client is writing in: d blocks below `block`
OpenBlockOf(block, d) ==
    IF d = 0 THEN block
    ELSE OpenBlockOf(block.items[Len(block.items)].sub[1], d - 1)

RECURSIVE WithItem(_, _, _)
WithItem(block, d, item) ==
    IF d = 0 THEN [block EXCEPT !.items = Append(@, item)]
    ELSE LET n == Len(block.items)
         IN  [block EXCEPT !.items[n].sub = <<WithItem(@[1], d - 1, item)>>]

RECURSIVE WithArg(_, _, _)
WithArg(block, d, arg) ==
    IF d = 0 THEN [block EXCEPT !.args = Append(@, arg)]
    ELSE LET n == Len(block.items)
         IN  [block EXCEPT !.items[n].sub = <<WithArg(@[1], d - 1, arg)>>]

RECURSIVE Concat(_, _)
\* the texts of `parts` joined by `sep`
Concat(parts, sep) ==
    IF parts = <<>> THEN <<>>
    ELSE IF Len(parts) = 1 THEN parts[1]
    ELSE parts[1] \o sep \o Concat(Tail(parts), sep)

RenderArg(arg) == <<arg.name, ":">> \o arg.raw

RECURSIVE Render(_, _, _)
\* the text of a block
Render(block, sep, trailing) ==
    LET comma == IF trailing THEN <<",">> ELSE <<>>
        RenderItem(item) ==
            (IF item.kind = "all" THEN <<"*">>
             ELSE IF item.kind = "excluded"
                  THEN <<"-">> \o (IF item.gap THEN <<" ">> ELSE <<>>) \o <<item.name>>
             ELSE (IF item.alias # "" THEN <<item.alias, ":">> ELSE <<>>) \o <<item.name>>)
            \o (IF item.sub = <<>> THEN <<>> ELSE Render(item.sub[1], sep, trailing))
    IN  (IF block.args = <<>> THEN <<>>
         ELSE <<"(">> \o Concat([i \in DOMAIN block.args |-> RenderArg(block.args[i])], sep)
                      \o comma \o <<")">>)
        \o <<"{">>
        \o Concat([i \in DOMAIN block.items |-> RenderItem(block.items[i])], sep)
        \o (IF block.items = <<>> THEN <<>> ELSE comma)
        \o <<"}">>

NotSelected == SelectReturned(<<>>, <<>>, <<>>)

\* what a nested serializer computed: the field it is, the name it is bound
\* to, the sub-query it applied (<<>> for none) and the outcome
NestedSelected(field, applied, outcome) ==
    [source |-> field.source, field_name |-> field.field_name,
     applied |-> applied, outcome |-> outcome]

NestedNotSelected ==
    [source |-> "", field_name |-> "", applied |-> <<>>, outcome |-> NotSelected]

NoRelatedFields == [query |-> <<>>, to_select |-> <<>>, to_prefetch |-> <<>>]

\* nothing has consumed the parsed query yet
NotDerived ==
    /\ message = <<>>
    /\ nested_selected = NestedNotSelected
    /\ query_params = <<>>
    /\ related_fields = NoRelatedFields

(***************************************************************************)
(* Nested fields (fields.py).  A payload for a to-many nested field is a   *)
(* dict of operation -> values, an ordered sequence of [key, value]; the   *)
(* values of an operation are a record [all, pks, items]: `pks` the        *)
(* primary keys listed (the keys of an `update` dict), `items` the dicts   *)
(* listed (the values of an `update` dict), `all` for the text "__all__".  *)
(***************************************************************************)
ADD == "add"
CREATE == "create"
REMOVE == "remove"
UPDATE == "update"

CREATE_OPERATIONS == {ADD, CREATE}
UPDATE_OPERATIONS == {ADD, CREATE, REMOVE, UPDATE}

\* the primary keys of the objects of the nested model
StoredPks == {1, 2}

\* the fields of an object of the nested model, as a client sends them
Title == <<[key |-> "title", value |-> "t"]>>

OpValues(all, pks, items) == [all |-> all, pks |-> pks, items |-> items]

\* a declared to-many nested field, or the exception its declaration raised
NestedFieldDeclared(create_ops, update_ops, allow_remove_all) ==
    [raised |-> "", create_ops |-> create_ops, update_ops |-> update_ops,
     allow_remove_all |-> allow_remove_all]
NestedFieldRefused(error, create_ops, update_ops, allow_remove_all) ==
    [raised |-> error, create_ops |-> create_ops, update_ops |-> update_ops,
     allow_remove_all |-> allow_remove_all]

\* BaseNestedFieldSerializerFactory with many=True: the checks of create_ops
\* and update_ops
BaseNestedFieldSerializerFactory(create_ops, update_ops, allow_remove_all) ==
    IF ~(create_ops \subseteq CREATE_OPERATIONS)
    THEN NestedFieldRefused("InvalidOperation", create_ops, update_ops, allow_remove_all)
    ELSE IF ~(update_ops \subseteq UPDATE_OPERATIONS)
    THEN NestedFieldRefused("InvalidOperation", create_ops, update_ops, allow_remove_all)
    ELSE NestedFieldDeclared(create_ops, update_ops, allow_remove_all)

\* the outcome of a validation: the code of the ValidationError raised and
\* the operation it is reported under, or the data returned
Invalid(code, operation) == [raised |-> "ValidationError", code |-> code, operation |-> operation]
Valid == [raised |-> "", code |-> "", operation |-> ""]
NotValidated == [raised |-> "none", code |-> "", operation |-> ""]

\* run_pk_list_validation: every primary key is the key of a stored object
run_pk_list_validation(pks) ==
    IF \E i \in DOMAIN pks : pks[i] \notin StoredPks THEN "does_not_exist" ELSE ""

\* run_data_list_validation: the serializer of the nested model validates
\* every item; `title` is its one required field
run_data_list_validation(items, partial) ==
    IF ~partial /\ \E i \in DOMAIN items : ~DictHas(items[i], "title")
    THEN "required" ELSE ""

run_add_list_validation(data) == run_pk_list_validation(data.pks)

run_create_list_validation(data) == run_data_list_validation(data.items, FALSE)

run_remove_list_validation(data, allow_remove_all) ==
    IF data.all
    THEN IF ~allow_remove_all THEN "not_allowed" ELSE ""
    ELSE run_pk_list_validation(data.pks)

run_update_list_validation(data) ==
    IF run_pk_list_validation(data.pks) # "" THEN run_pk_list_validation(data.pks)
    ELSE run_data_list_validation(data.items, TRUE)

\* operation_2_validation_method[operation](values)
operation_2_validation_method(operation, values, allow_remove_all) ==
    IF operation = ADD THEN run_add_list_validation(values)
    ELSE IF operation = CREATE THEN run_create_list_validation(values)
    ELSE IF operation = REMOVE THEN run_remove_list_validation(values, allow_remove_all)
    ELSE run_update_list_validation(values)

\* every key of the payload is looked up, also the ones that are no
\* operation at all
run_data_validation_of_known_operations(data, allowed_ops, allow_remove_all) ==
    IF \E i \in DOMAIN data : data[i].key \notin UPDATE_OPERATIONS
    THEN Invalid("invalid_operation", "")
    ELSE Valid

RECURSIVE run_data_validation(_, _, _)
\* BaseNestedFieldListSerializer.run_data_validation: the loop over
\* data.items()
run_data_validation(data, allowed_ops, allow_remove_all) ==
    LET checked(operation, code) ==
            IF code # "" THEN Invalid(code, operation)
            ELSE run_data_validation(Tail(data), allowed_ops, allow_remove_all)
        each(entry) ==
            IF entry.key \notin allowed_ops THEN Invalid("invalid_operation", "")
            ELSE checked(entry.key,
                         operation_2_validation_method(entry.key, entry.value,
                                                       allow_remove_all))
    IN  IF data = <<>> THEN Valid ELSE each(Head(data))

\* BaseNestedFieldListSerializer.to_internal_value on a serializer whose
\* root has an instance or not and whose context has parent_operation
list_to_internal_value(field, data, root_has_instance, parent_operation) ==
    IF ~root_has_instance
    THEN IF parent_operation = UPDATE
         THEN run_data_validation(data, field.update_ops, field.allow_remove_all)
         ELSE run_data_validation(data, field.create_ops, field.allow_remove_all)
    ELSE run_data_validation(data, field.update_ops, field.allow_remove_all)

NotDeclared == [raised |-> "none", create_ops |-> {}, update_ops |-> {},
                allow_remove_all |-> FALSE]

\* no field is declared and no data sent
NothingWritten ==
    /\ nested_field = NotDeclared
    /\ payload = <<>>
    /\ validation = [outcome |-> NotValidated, root_has_instance |-> FALSE,
                     parent_operation |-> ""]

(***************************************************************************)
(* A foreign key nested field (many=False).  The data sent for it is a     *)
(* primary key or a dict: [isdict, pk, item].                              *)
(***************************************************************************)
PkData(pk) == [isdict |-> FALSE, pk |-> pk, item |-> <<>>]
DictData(item) == [isdict |-> TRUE, pk |-> 0, item |-> item]

\* BaseNestedFieldSerializer as the class is created: is_replaceable is
\* accept_pk_only or accept_pk
BaseNestedFieldSerializer(accept_pk, accept_pk_only) ==
    [declared |-> TRUE, accept_pk |-> accept_pk, accept_pk_only |-> accept_pk_only,
     is_replaceable |-> accept_pk_only \/ accept_pk]

NoForeignKeyField ==
    [declared |-> FALSE, accept_pk |-> FALSE, accept_pk_only |-> FALSE,
     is_replaceable |-> FALSE]

\* run_pk_validation: the object of the primary key, or does_not_exist; a
\* dict is no primary key
run_pk_validation(data) ==
    IF data.isdict THEN "incorrect_type"
    ELSE IF data.pk \notin StoredPks THEN "does_not_exist" ELSE ""

\* BaseNestedFieldSerializer.run_data_validation: the nested serializer
\* validates the dict; a primary key is no dict
run_dict_validation(data) ==
    IF ~data.isdict THEN "invalid"
    ELSE IF ~DictHas(data.item, "title") THEN "required" ELSE ""

\* BaseNestedFieldSerializer.to_internal_value on data that is given: the
\* field after the call and the code of the ValidationError raised, "" when
\* a value is returned
to_internal_value(field, data) ==
    IF field.accept_pk_only THEN [field |-> field, code |-> run_pk_validation(data)]
    ELSE IF field.accept_pk
    THEN IF data.isdict
         THEN [field |-> [field EXCEPT !.is_replaceable = FALSE],
               code |-> run_dict_validation(data)]
         ELSE [field |-> field, code |-> run_pk_validation(data)]
    ELSE [field |-> field, code |-> run_dict_validation(data)]

\* NestedCreateMixin.create and NestedUpdateMixin.update on a value of the
\* field: where it is put, and the code of the ValidationError the
\* serializer of the nested object raises on a value that is no dict
route_foreignkey_related(field, data) ==
    IF field.is_replaceable THEN [to |-> "replaceable", code |-> ""]
    ELSE [to |-> "writable", code |-> run_dict_validation(data)]

NotRouted == [to |-> "", code |-> ""]

\* no foreign key field is declared and nothing validated
NoForeignKeyWritten ==
    /\ foreign_key_field = NoForeignKeyField
    /\ validated = <<>>
    /\ routed = NotRouted

(***************************************************************************)
(* NestedCreateMixin and NestedUpdateMixin on a to-many nested field.      *)
(* The database is [objects, related]: `objects` the dict pk -> fields of  *)
(* the objects of the nested model, `related` the primary keys of the ones *)
(* related to the instance.  In a many-to-one relation an object is        *)
(* related by its foreign key.                                             *)
(***************************************************************************)
\* instance.pk
InstancePk == 7
\* getattr(model, field).field.name
foreignkey == "parent"

\* `last_pk` is the primary key given last: a new object gets the next one
Db(objects, related, last_pk) ==
    [objects |-> objects, related |-> related, last_pk |-> last_pk]

\* what an operation leaves: the database, the values it was given as they
\* are after it, and the code of the ValidationError it raised
Done(database, values, code) == [db |-> database, values |-> values, code |-> code]

RECURSIVE SeqToSet(_)
SeqToSet(seq) == IF seq = <<>> THEN {} ELSE {Head(seq)} \cup SeqToSet(Tail(seq))

RECURSIVE DictRemove(_, _)
\* the dict without the keys in `keys`
DictRemove(d, keys) ==
    IF d = <<>> THEN <<>>
    ELSE IF Head(d).key \in keys THEN DictRemove(Tail(d), keys)
    ELSE <<Head(d)>> \o DictRemove(Tail(d), keys)

RECURSIVE bulk_create_objs(_, _, _)
\* bulk_create_objs, bulk_create_many_to_many_related and
\* bulk_create_many_to_one_related: serializer.save() for every item, the
\* primary keys of the new objects in `pks`
bulk_create_objs(database, data, pks) ==
    IF data = <<>> THEN [db |-> database, pks |-> pks]
    ELSE bulk_create_objs(Db(DictSet(database.objects, database.last_pk + 1, Head(data)),
                             database.related, database.last_pk + 1),
                          Tail(data), pks \cup {database.last_pk + 1})

RECURSIVE with_foreignkey(_)
\* for v in values[operation]: v.update({foreignkey: instance.pk})
with_foreignkey(items) ==
    IF items = <<>> THEN <<>>
    ELSE <<DictSet(Head(items), foreignkey, InstancePk)>> \o with_foreignkey(Tail(items))

\* nested_obj.add(*pks) of a many-to-many manager
many_to_many_add(database, pks) ==
    IF SeqToSet(pks) \subseteq DictKeys(database.objects)
    THEN [db |-> [database EXCEPT !.related = @ \cup SeqToSet(pks)], code |-> ""]
    ELSE [db |-> database, code |-> "constrain_error"]

\* serializer.save() on the object of `pk` with partial data
saved_object(objects, pk, values) == DictSet(objects, pk, DictUpdate(DictGet(objects, pk, <<>>), values))

RECURSIVE bulk_update_many_to_many_related(_, _, _)
\* bulk_update_many_to_many_related: data is {pk: values}, here the keys
\* and the values side by side
bulk_update_many_to_many_related(database, pks, items) ==
    IF pks = <<>> THEN database
    ELSE IF Head(pks) \notin database.related
    THEN bulk_update_many_to_many_related(database, Tail(pks), Tail(items))
    ELSE bulk_update_many_to_many_related(
             [database EXCEPT !.objects = saved_object(@, Head(pks), Head(items))],
             Tail(pks), Tail(items))

RECURSIVE bulk_update_many_to_one_related(_, _, _, _)
\* bulk_update_many_to_one_related with update_foreign_key=True: the
\* database and the values as they are after the call, in `updated`
bulk_update_many_to_one_related(database, pks, items, updated) ==
    IF pks = <<>> THEN [db |-> database, items |-> updated]
    ELSE IF Head(pks) \notin database.related
    THEN bulk_update_many_to_one_related(database, Tail(pks), Tail(items),
                                         Append(updated, Head(items)))
    ELSE bulk_update_many_to_one_related(
             [database EXCEPT !.objects = saved_object(@, Head(pks),
                                              DictSet(Head(items), foreignkey, InstancePk))],
             Tail(pks), Tail(items),
             Append(updated, DictSet(Head(items), foreignkey, InstancePk)))

\* one operation of update_many_to_many_related
many_to_many_operation(database, operation, values) ==
    LET added(r) == Done(r.db, values, r.code)
        created(r) == Done([r.db EXCEPT !.related = @ \cup r.pks], values, "")
        removed(pks) == Done([database EXCEPT !.related = @ \ pks], values, "")
    IN  IF operation = ADD THEN added(many_to_many_add(database, values.pks))
        ELSE IF operation = CREATE
        THEN created(bulk_create_objs(database, values.items, {}))
        ELSE IF operation = REMOVE
        THEN removed(IF values.all THEN database.related ELSE SeqToSet(values.pks))
        ELSE IF operation = UPDATE
        THEN Done(bulk_update_many_to_many_related(database, values.pks, values.items),
                  values, "")
        ELSE Done(database, values, "invalid_operation")

\* one operation of update_many_to_one_related
many_to_one_operation(database, operation, values) ==
    LET created(r, items) ==
            Done([r.db EXCEPT !.related = @ \cup r.pks],
                 [values EXCEPT !.items = items], "")
        removed(pks) ==
            Done([database EXCEPT !.objects = DictRemove(@, pks), !.related = @ \ pks],
                 values, "")
        updated(r) == Done(r.db, [values EXCEPT !.items = r.items], "")
    IN  IF operation = ADD
        THEN Done([database EXCEPT
                      !.related = @ \cup (SeqToSet(values.pks)
                                             \cap DictKeys(database.objects))],
                  values, "")
        ELSE IF operation = CREATE
        THEN created(bulk_create_objs(database, with_foreignkey(values.items), {}),
                     with_foreignkey(values.items))
        ELSE IF operation = REMOVE
        THEN removed(IF values.all THEN database.related
                     ELSE database.related \cap SeqToSet(values.pks))
        ELSE IF operation = UPDATE
        THEN updated(bulk_update_many_to_one_related(database, values.pks, values.items,
                                                     <<>>))
        ELSE Done(database, values, "invalid_operation")

RECURSIVE update_related(_, _, _, _)
\* update_many_to_many_related and update_many_to_one_related on the value
\* of one field: `for operation in values`, the entries already applied in
\* `done`
update_related(rel, database, data, done) ==
    LET next(entry, r) ==
            IF r.code # ""
            THEN Done(r.db, done \o <<[entry EXCEPT !.value = r.values]>> \o Tail(data),
                      r.code)
            ELSE update_related(rel, r.db, Tail(data),
                                Append(done, [entry EXCEPT !.value = r.values]))
        each(entry) ==
            next(entry, IF rel = "many_to_many"
                        THEN many_to_many_operation(database, entry.key, entry.value)
                        ELSE many_to_one_operation(database, entry.key, entry.value))
    IN  IF data = <<>> THEN Done(database, done, "") ELSE each(Head(data))

RECURSIVE create_related(_, _, _, _)
\* create_many_to_many_related and create_many_to_one_related on the value
\* of one field: add and create are applied, any other key is passed over
create_related(rel, database, data, done) ==
    LET next(entry, r) ==
            IF r.code # ""
            THEN Done(r.db, done \o <<[entry EXCEPT !.value = r.values]>> \o Tail(data),
                      r.code)
            ELSE create_related(rel, r.db, Tail(data),
                                Append(done, [entry EXCEPT !.value = r.values]))
        each(entry) ==
            IF entry.key \notin {ADD, CREATE}
            THEN create_related(rel, database, Tail(data), Append(done, entry))
            ELSE next(entry, IF rel = "many_to_many"
                             THEN many_to_many_operation(database, entry.key, entry.value)
                             ELSE many_to_one_operation(database, entry.key, entry.value))
    IN  IF data = <<>> THEN Done(database, done, "") ELSE each(Head(data))

\* the objects 1 and 2 of the nested model
StoredObjects == << [key |-> 1, value |-> Title], [key |-> 2, value |-> Title] >>

NotSaved == [raised |-> "none", code |-> ""]
Saved(code) == [raised |-> IF code = "" THEN "" ELSE "ValidationError", code |-> code]

\* the relation behind the field: its kind and the primary keys related to
\* the instance before the request
Relation(kind, related) == [kind |-> kind, related |-> related]
NoRelation == Relation("", {})

\* validated_data of the parent serializer: the one key of the nested field
ValidatedData(value) == << [key |-> "books", value |-> value] >>

\* NestedUpdateMixin.update on validated_data: the field is popped from the
\* copy and handed to update_many_to_many_related or
\* update_many_to_one_related
update(rel, database, data) ==
    update_related(rel, database, DictGet(data, "books", <<>>), <<>>)

\* NestedCreateMixin.create on validated_data
create(rel, database, data) ==
    create_related(rel, database, DictGet(data, "books", <<>>), <<>>)

\* nothing is stored for a save
NothingSaved ==
    /\ relation = NoRelation
    /\ db = Db(StoredObjects, {}, 2)
    /\ validated_data = <<>>
    /\ saved = NotSaved

(***************************************************************************)
(* restql_settings (settings.py).  The RESTQL setting of the project is a  *)
(* dict; the settings object keeps the dict it read in _user_settings and  *)
(* the values it returned as attributes of its own.                        *)
(***************************************************************************)
DEFAULTS ==
    << [key |-> "QUERY_PARAM_NAME", value |-> "query"],
       [key |-> "AUTO_APPLY_EAGER_LOADING", value |-> "True"] >>

\* RESTQLSettings.__init__: nothing is read and nothing cached
RESTQLSettings == [_user_settings |-> <<>>, attrs |-> <<>>]

\* RESTQLSettings.user_settings: the dict, and the object that has kept it
user_settings(self, settings) ==
    IF self._user_settings = <<>>
    THEN [self EXCEPT !._user_settings = <<settings>>]
    ELSE self

\* restql_settings.<attr>: the object after the read, the value returned
\* and the exception raised
getattr(self, attr, settings) ==
    LET computed(fetched) ==
            LET val == IF DictHas(fetched._user_settings[1], attr)
                       THEN DictGet(fetched._user_settings[1], attr, "")
                       ELSE DictGet(DEFAULTS, attr, "")
            IN  [self |-> [fetched EXCEPT !.attrs = DictSet(@, attr, val)],
                 val |-> val, raised |-> ""]
    IN  IF DictHas(self.attrs, attr)
        THEN [self |-> self, val |-> DictGet(self.attrs, attr, ""), raised |-> ""]
        ELSE IF ~DictHas(DEFAULTS, attr)
        THEN [self |-> self, val |-> "", raised |-> "AttributeError"]
        ELSE computed(user_settings(self, settings))

\* the cached values stay
reload_nothing(self) == self
\* RESTQLSettings.reload
reload(self) == [_user_settings |-> <<>>, attrs |-> <<>>]

\* reload_restql_settings, the receiver of setting_changed
reload_restql_settings(self, setting) ==
    IF setting = "RESTQL" THEN reload(self) ELSE self

NotRead == [attr |-> "", val |-> "", raised |-> ""]

\* the project has no RESTQL setting and nothing was read
(***************************************************************************)
(* RequestQueryParserMixin: the request and the Query kept on it.          *)
(* request.GET is a dict from names to the lists of their values, each     *)
(* value the characters of its text; parsed_restql_query is <<>> while the *)
(* request has no such attribute.                                          *)
(***************************************************************************)
Request(GET) == [GET |-> GET, parsed_restql_query |-> <<>>]

\* request.GET[name]: the last value of the list of `name`
QueryDict_getitem(GET, name) ==
    DictGet(GET, name, <<>>)[Len(DictGet(GET, name, <<>>))]

\* the text of a query parameter in params.urlencode(): str(value), for the
\* integers 0 and 1 and the strings of one character
urlencode(value) ==
    IF value.type = "str" THEN <<value.str>>
    ELSE IF value.num = 1 THEN <<"1">> ELSE <<"0">>

RECURSIVE QueryDict_update(_, _)
\* params.update(query_params): every value is appended to the list of its
\* name
QueryDict_update(params, other) ==
    IF other = <<>> THEN params
    ELSE QueryDict_update(
             DictSet(params, Head(other).key,
                     Append(DictGet(params, Head(other).key, <<>>),
                            urlencode(Head(other).value))),
             Tail(other))

\* the parser runs for every call and nothing is read from the request
get_parsed_restql_query_from_req_parsing_again(req, query_param_name) ==
    LET parsed_as(outcome) ==
            [request |-> IF outcome.raised # "" THEN req
                         ELSE [req EXCEPT !.parsed_restql_query = <<outcome.query>>],
             parsed |-> outcome,
             parses |-> <<outcome.raised>>]
    IN  parsed_as(parse(QueryDict_getitem(req.GET, query_param_name)))
\* RequestQueryParserMixin.get_parsed_restql_query_from_req: the request as
\* it is left, what the caller gets (a Query, or the exception of the
\* parser) and the outcomes of the runs of parser.parse
get_parsed_restql_query_from_req(req, query_param_name) ==
    LET parsed_as(outcome) ==
            [request |-> IF outcome.raised # "" THEN req
                         ELSE [req EXCEPT !.parsed_restql_query = <<outcome.query>>],
             parsed |-> outcome,
             parses |-> <<outcome.raised>>]
    IN  IF req.parsed_restql_query # <<>>
        THEN [request |-> req, parsed |-> Returned(req.parsed_restql_query[1]),
              parses |-> <<>>]
        ELSE parsed_as(parse(QueryDict_getitem(req.GET, query_param_name)))

\* the arguments are taken out of the Query while the parameters are built
inject_query_params_in_req_taking_arguments(req, params) ==
    [GET |-> QueryDict_update(req.GET, params),
     parsed_restql_query |->
         IF req.parsed_restql_query = <<>> THEN <<>>
         ELSE <<[req.parsed_restql_query[1] EXCEPT !.arguments = <<>>]>>]
\* QueryArgumentsMixin.inject_query_params_in_req, after build_query_params:
\* request.GET is replaced by a QueryDict with the query parameters added
inject_query_params_in_req(req, params) ==
    [req EXCEPT !.GET = QueryDict_update(@, params)]

NoRequestYet ==
    /\ request = Request(<<>>)
    /\ parses = <<>>
    /\ calls = 0

(***************************************************************************)
(* DynamicFieldsMixin: the `fields` and `exclude` kwargs.                  *)
(***************************************************************************)
\* a kwarg left at None, and a kwarg given as a list of field names
NotGiven == <<>>
Given(names) == <<names>>

\* self.dynamic_fields_mixin_kwargs, the two entries allowed_fields reads
Kwargs(fields, exclude) == [fields |-> fields, exclude |-> exclude]

FieldsAllowed(fields) == [raised |-> "", fields |-> fields]
FieldNotFound == [raised |-> "FieldNotFound", fields |-> <<>>]

\* for field_name in not_allowed: fields.pop(field_name), FieldNotFound on
\* a KeyError
pop_not_allowed(fields, not_allowed) ==
    IF not_allowed \subseteq DictKeys(fields)
    THEN FieldsAllowed(DictRemove(fields, not_allowed))
    ELSE FieldNotFound

\* DynamicFieldsMixin.allowed_fields over the fields `fields` of the
\* superclass
AllowedFields(kwargs, fields) ==
    LET existing == DictKeys(fields)
        excluding(kept) ==
            IF kept.raised # "" \/ kwargs.exclude = NotGiven THEN kept
            ELSE pop_not_allowed(kept.fields, kwargs.exclude[1])
        allowed == kwargs.fields[1]
    IN  IF kwargs.fields = NotGiven THEN excluding(FieldsAllowed(fields))
        ELSE excluding(pop_not_allowed(fields,
                 (existing \ allowed) \cup (allowed \ existing)))

NoKwargs == dynamic_fields_mixin_kwargs = Kwargs(NotGiven, NotGiven)

SettingsLoaded ==
    /\ django_settings = <<>>
    /\ restql_settings = RESTQLSettings
    /\ read = NotRead
    /\ signalled = ""

Init ==
    /\ written = NoBlock
    /\ depth = 0
    /\ query = <<>>
    /\ parsed = Returned(NoQuery)
    /\ allowed_fields = SerializerFields
    /\ selected = NotSelected
    /\ pc = "writing"
    /\ NotDerived
    /\ NothingWritten
    /\ NoForeignKeyWritten
    /\ NothingSaved
    /\ SettingsLoaded
    /\ NoKwargs
    /\ NoRequestYet

Write(item, d) ==
    /\ pc = "writing"
    /\ CountItems(written) < MaxItems
    /\ written' = WithItem(written, depth, item)
    /\ depth' = d
    /\ UNCHANGED <<query, parsed, allowed_fields, selected, pc, derived, write_side, foreign_key_side, save_side, settings_side, serializer_side, request_side>>

\* the client writes `name` or `alias: name`
WriteField(name, alias) == Write(Item("field", name, alias, FALSE, <<>>), depth)

\* the client writes `-name`, or `- name`
WriteExcluded(name, gap) == Write(Item("excluded", name, "", gap, <<>>), depth)

\* the client writes `*`
WriteAllFields == Write(Item("all", "*", "", FALSE, <<>>), depth)

\* the client writes `name{` or `alias: name{`, or `-name{`
OpenBlock(name, alias, minus) ==
    /\ minus => alias = ""
    /\ Write(Item(IF minus THEN "excluded" ELSE "field", name, alias, FALSE, <<NoBlock>>),
             depth + 1)

\* the client writes `}`
CloseBlock ==
    /\ pc = "writing"
    /\ depth > 0
    /\ depth' = depth - 1
    /\ UNCHANGED <<written, query, parsed, allowed_fields, selected, pc, derived, write_side, foreign_key_side, save_side, settings_side, serializer_side, request_side>>

\* the client writes `name: value` in the argument block of the open block
WriteArgument(name, raw) ==
    /\ pc = "writing"
    /\ CountArgs(written) < MaxArgs
    /\ OpenBlockOf(written, depth).items = <<>>
    /\ written' = WithArg(written, depth, [name |-> name, raw |-> raw])
    /\ UNCHANGED <<depth, query, parsed, allowed_fields, selected, pc, derived, write_side, foreign_key_side, save_side, settings_side, serializer_side, request_side>>

\* RequestQueryParserMixin.get_parsed_restql_query_from_req on a request
\* whose query parameter is the text written
Parse(sep, trailing) ==
    /\ pc = "writing"
    /\ query' = Render(written, sep, trailing)
    /\ parsed' = parse(query')
    /\ depth' = 0
    /\ pc' = "parsed"
    /\ UNCHANGED <<written, allowed_fields, selected, derived, write_side, foreign_key_side, save_side, settings_side, serializer_side, request_side>>

\* the request is sent without the query parameter
SendWithoutQuery ==
    /\ pc = "writing"
    /\ written = NoBlock
    /\ pc' = "absent"
    /\ UNCHANGED <<written, depth, query, parsed, allowed_fields, selected, derived, write_side, foreign_key_side, save_side, settings_side, serializer_side, request_side>>

\* RequestQueryParserMixin.has_restql_query_param, once the request is sent
has_restql_query_param == query # <<>>

\* "QuerySyntaxError: " + e.msg + " on " + e.text, "QueryFormatError: " + str(e):
\* the message as the list of its parts, what the exception carries by name
ValidationErrorMessage(raised) ==
    IF raised = "SyntaxError" THEN <<"QuerySyntaxError: ", "e.msg", " on ", "e.text">>
    ELSE <<"QueryFormatError: ", "str(e)">>

\* DynamicFieldsMixin.dynamic_fields of the root serializer, whose
\* get_parsed_restql_query reads the query parameter of the request: its
\* outcome and the message of the ValidationError a query that fails to
\* parse is reported with
dynamic_fields(all_fields) ==
    IF ~has_restql_query_param
    THEN [selected |-> SelectReturned(all_fields, <<>>, all_fields), message |-> <<>>]
    ELSE IF parsed.raised # ""
    THEN [selected |-> SelectRaised("invalid", all_fields),
          message |-> ValidationErrorMessage(parsed.raised)]
    ELSE [selected |-> select_fields(parsed.query, all_fields), message |-> <<>>]

\* the root serializer computes its fields
SelectFields ==
    /\ pc \in {"parsed", "absent", "injected", "loaded"}
    /\ selected' = dynamic_fields(allowed_fields).selected
    /\ message' = dynamic_fields(allowed_fields).message
    /\ allowed_fields' = selected'.all_fields
    /\ pc' = "selected"
    /\ UNCHANGED <<written, depth, query, parsed, nested_selected, query_params,
                   related_fields, write_side, foreign_key_side, save_side, settings_side, serializer_side, request_side>>

\* the fields of the serializers nested as `b` and `d`: two flat fields
NestedSerializerFields == << DeclaredField("a", FALSE), DeclaredField("c", FALSE) >>

\* DynamicFieldsMixin.dynamic_fields of a serializer that is the field
\* `field` of a parent whose restql_nested_parsed_queries are `nested`
nested_dynamic_fields(field, nested, all_fields) ==
    LET field_name == field.field_name
    IN  IF ~DictHas(nested, field_name)
        THEN NestedSelected(field, <<>>, SelectReturned(all_fields, <<>>, all_fields))
        ELSE NestedSelected(field, <<DictGet(nested, field_name, NoQuery)>>,
                            select_fields(DictGet(nested, field_name, NoQuery), all_fields))

\* the serializer nested under the key `key` of the fields the root
\* serializer selected computes its fields
SelectNestedFields(key) ==
    /\ pc = "selected"
    /\ selected.raised = ""
    /\ DictHas(selected.fields, key)
    /\ DictGet(selected.fields, key, <<>>).nested
    /\ nested_selected' = nested_dynamic_fields(DictGet(selected.fields, key, <<>>),
                                                selected.nested, NestedSerializerFields)
    /\ pc' = "nested"
    /\ UNCHANGED <<written, depth, query, parsed, allowed_fields, selected, message,
                   query_params, related_fields, write_side, foreign_key_side, save_side, settings_side, serializer_side, request_side>>

\* QueryArgumentsMixin.get_parsed_restql_query: the Query of the request, and
\* the include-all query when there is none or when it does not parse
get_parsed_restql_query ==
    IF ~has_restql_query_param \/ parsed.raised # "" THEN IncludeAllQuery ELSE parsed.query

\* QueryArgumentsMixin.inject_query_params_in_req, on dispatch: the
\* arguments of the query become query parameters of the request
InjectQueryParams ==
    /\ pc \in {"parsed", "absent"}
    /\ query_params' = build_query_params(get_parsed_restql_query, "")
    /\ pc' = "injected"
    /\ UNCHANGED <<written, depth, query, parsed, allowed_fields, selected, message,
                   nested_selected, related_fields, write_side, foreign_key_side, save_side, settings_side, serializer_side, request_side>>

\* the Query of the request whatever the parser answered
parsed_restql_query_of_any_outcome ==
    IF ~has_restql_query_param THEN IncludeAllQuery ELSE parsed.query
\* EagerLoadingMixin.parsed_restql_query: the Query of the request, and the
\* include-all query when there is none or when it does not parse
parsed_restql_query ==
    IF ~has_restql_query_param \/ parsed.raised # "" THEN IncludeAllQuery ELSE parsed.query

\* EagerLoadingMixin.get_queryset: the relations to load are chosen
ApplyEagerLoading ==
    /\ pc \in {"parsed", "absent", "injected"}
    /\ related_fields' = apply_eager_loading(parsed_restql_query)
    /\ pc' = "loaded"
    /\ UNCHANGED <<written, depth, query, parsed, allowed_fields, selected, message,
                   nested_selected, query_params, write_side, foreign_key_side, save_side, settings_side, serializer_side, request_side>>

\* the parser on every way of writing fields, exclusions and blocks
Next ==
    \/ \E name \in Names, alias \in Aliases : WriteField(name, alias)
    \/ \E name \in Names, gap \in BOOLEAN : WriteExcluded(name, gap)
    \/ WriteAllFields
    \/ \E name \in Names, alias \in Aliases, minus \in BOOLEAN :
           OpenBlock(name, alias, minus)
    \/ CloseBlock
    \/ \E sep \in Separators, trailing \in BOOLEAN : Parse(sep, trailing)

Spec == Init /\ [][Next]_vars

\* the parser on queries with arguments
NextArguments ==
    \/ \E name \in ArgNames : WriteField(name, "")
    \/ \E name \in ArgNames : OpenBlock(name, "", FALSE)
    \/ CloseBlock
    \/ \E arg \in ArgsWritten : WriteArgument(arg.name, arg.raw)
    \/ \E sep \in Separators, trailing \in BOOLEAN : Parse(sep, trailing)

SpecArguments == Init /\ [][NextArguments]_vars

\* field selection on the queries that parse
NextSelect ==
    \/ \E name \in SelectNames, alias \in Aliases : WriteField(name, alias)
    \/ \E name \in SelectNames : WriteExcluded(name, FALSE)
    \/ WriteAllFields
    \/ \E name \in SelectNames, alias \in Aliases : OpenBlock(name, alias, FALSE)
    \/ CloseBlock
    \/ Parse(<<",">>, FALSE)
    \/ SendWithoutQuery
    \/ SelectFields
    \/ \E key \in SelectNames \cup Aliases : SelectNestedFields(key)

SpecSelect == Init /\ [][NextSelect]_vars

\* the arguments a client writes to be injected: a: 1 and a: 0
ParamsWritten == {[name |-> "a", raw |-> <<"1">>], [name |-> "a", raw |-> <<"0">>]}
\* the blocks a client opens: `a{`, `c: b{` and `-b{`
BlocksOpened ==
    {[name |-> "a", alias |-> "", minus |-> FALSE],
     [name |-> "b", alias |-> "c", minus |-> FALSE],
     [name |-> "b", alias |-> "", minus |-> TRUE]}

\* query parameters from the arguments of queries with nested, aliased and
\* excluded fields, and of texts that do not parse
NextParams ==
    \/ WriteExcluded("a", FALSE)
    \/ \E b \in BlocksOpened : OpenBlock(b.name, b.alias, b.minus)
    \/ CloseBlock
    \/ \E arg \in ParamsWritten : WriteArgument(arg.name, arg.raw)
    \/ Parse(<<",">>, FALSE)
    \/ SendWithoutQuery
    \/ InjectQueryParams

SpecParams == Init /\ [][NextParams]_vars

\* the relations loaded for queries over the fields a and b
NextEager ==
    \/ \E name \in {"a", "b"} : WriteField(name, "")
    \/ \E name \in {"a", "b"} : WriteExcluded(name, FALSE)
    \/ WriteAllFields
    \/ OpenBlock("b", "", FALSE)
    \/ OpenBlock("b", "c", FALSE)
    \/ CloseBlock
    \/ Parse(<<",">>, FALSE)
    \/ SendWithoutQuery
    \/ ApplyEagerLoading

SpecEager == Init /\ [][NextEager]_vars

\* a request through the view and the root serializer: the arguments are
\* injected, the relations chosen and the fields selected, on texts that
\* parse, on `-b{` and on `a: a`, which do not, and without query
NextRequest ==
    \/ WriteField("b", "")
    \/ WriteField("a", "a")
    \/ \E minus \in BOOLEAN : OpenBlock("b", "", minus)
    \/ CloseBlock
    \/ WriteArgument("a", <<"1">>)
    \/ Parse(<<",">>, FALSE)
    \/ SendWithoutQuery
    \/ InjectQueryParams
    \/ ApplyEagerLoading
    \/ SelectFields

SpecRequest == Init /\ [][NextRequest]_vars

\* the value grammar on one argument `a: <raw>` before an empty block
InitValue ==
    /\ written \in {[args |-> <<[name |-> "a", raw |-> raw]>>, items |-> <<>>] :
                       raw \in RawValues}
    /\ depth = 0
    /\ query = <<>>
    /\ parsed = Returned(NoQuery)
    /\ allowed_fields = SerializerFields
    /\ selected = NotSelected
    /\ pc = "writing"
    /\ NotDerived
    /\ NothingWritten
    /\ NoForeignKeyWritten
    /\ NothingSaved
    /\ SettingsLoaded
    /\ NoKwargs
    /\ NoRequestYet

NextValue == \E trailing \in BOOLEAN : Parse(<<",">>, trailing)

SpecValue == InitValue /\ [][NextValue]_vars

(***************************************************************************)
(* A to-many nested field is declared, a payload is written for it and     *)
(* the payload is validated.                                               *)
(***************************************************************************)
\* the create_ops and update_ops a serializer author declares
CreateOpsDeclared == {{ADD, CREATE}, {ADD}, {}, {ADD, REMOVE}}
UpdateOpsDeclared == {UPDATE_OPERATIONS, {ADD, REMOVE}, {UPDATE}, {ADD, "delete"}}

\* the entries a client writes in a payload; 3 is the key of no object and
\* `delete` is no operation
EntriesWritten ==
    {[key |-> ADD, value |-> OpValues(FALSE, <<1>>, <<>>)],
     [key |-> ADD, value |-> OpValues(FALSE, <<3>>, <<>>)],
     [key |-> CREATE, value |-> OpValues(FALSE, <<>>, <<Title>>)],
     [key |-> CREATE, value |-> OpValues(FALSE, <<>>, << <<>> >>)],
     [key |-> REMOVE, value |-> OpValues(TRUE, <<>>, <<>>)],
     [key |-> REMOVE, value |-> OpValues(FALSE, <<2>>, <<>>)],
     [key |-> UPDATE, value |-> OpValues(FALSE, <<1>>, << <<>> >>)],
     [key |-> UPDATE, value |-> OpValues(FALSE, <<3>>, <<Title>>)],
     [key |-> "delete", value |-> OpValues(FALSE, <<1>>, <<>>)]}

\* the serializers a nested field is validated in: the root serializer of a
\* POST, of a PUT or PATCH, and the serializers run_data_list_validation
\* builds for the items of a `create` and of an `update` operation
ParentsOfField ==
    {[root_has_instance |-> FALSE, parent_operation |-> ""],
     [root_has_instance |-> TRUE, parent_operation |-> ""],
     [root_has_instance |-> FALSE, parent_operation |-> CREATE],
     [root_has_instance |-> FALSE, parent_operation |-> UPDATE],
     [root_has_instance |-> TRUE, parent_operation |-> UPDATE]}

\* NestedField(..., many=True, create_ops=..., update_ops=...) in the body
\* of a serializer class
DeclareNestedField(create_ops, update_ops, allow_remove_all) ==
    /\ nested_field = NotDeclared
    /\ nested_field' = BaseNestedFieldSerializerFactory(create_ops, update_ops,
                                                        allow_remove_all)
    /\ UNCHANGED <<read_side, payload, validation, foreign_key_side, save_side, settings_side, serializer_side, request_side>>

\* the client writes `key: value` in the payload of the field
WriteOperation(entry) ==
    /\ nested_field.raised = ""
    /\ validation.outcome = NotValidated
    /\ Len(payload) < MaxOps
    /\ ~DictHas(payload, entry.key)
    /\ payload' = Append(payload, entry)
    /\ UNCHANGED <<read_side, nested_field, validation, foreign_key_side, save_side, settings_side, serializer_side, request_side>>

\* the serializer validates the payload of the field
ValidateNestedField(parent) ==
    /\ nested_field.raised = ""
    /\ validation.outcome = NotValidated
    /\ validation' = [outcome |-> list_to_internal_value(nested_field, payload,
                                       parent.root_has_instance, parent.parent_operation),
                      root_has_instance |-> parent.root_has_instance,
                      parent_operation |-> parent.parent_operation]
    /\ UNCHANGED <<read_side, nested_field, payload, foreign_key_side, save_side, settings_side, serializer_side, request_side>>

NextNestedField ==
    \/ \E c \in CreateOpsDeclared, u \in UpdateOpsDeclared, all \in BOOLEAN :
           DeclareNestedField(c, u, all)
    \/ \E entry \in EntriesWritten : WriteOperation(entry)
    \/ \E parent \in ParentsOfField : ValidateNestedField(parent)

SpecNestedField == Init /\ [][NextNestedField]_vars

(***************************************************************************)
(* A foreign key nested field validates one value after another, as the    *)
(* child of a serializer with many=True does, and the last value is saved. *)
(***************************************************************************)
\* the data a client sends for the field; 3 is the key of no object and a
\* dict without title is not valid
ForeignKeyData == {PkData(1), PkData(3), DictData(Title), DictData(<<>>)}

\* NestedField(..., accept_pk=..., accept_pk_only=...) in a serializer
DeclareForeignKeyField(accept_pk, accept_pk_only) ==
    /\ ~foreign_key_field.declared
    /\ ~(accept_pk /\ accept_pk_only)
    /\ foreign_key_field' = BaseNestedFieldSerializer(accept_pk, accept_pk_only)
    /\ UNCHANGED <<read_side, write_side, validated, routed, save_side, settings_side, serializer_side, request_side>>

\* the field validates `data`
ValidateForeignKey(data) ==
    /\ foreign_key_field.declared
    /\ routed = NotRouted
    /\ Len(validated) < MaxValidations
    /\ foreign_key_field' = to_internal_value(foreign_key_field, data).field
    /\ validated' = Append(validated,
                           [data |-> data,
                            code |-> to_internal_value(foreign_key_field, data).code])
    /\ UNCHANGED <<read_side, write_side, routed, save_side, settings_side, serializer_side, request_side>>

\* create or update of the parent serializer on the value validated last
SaveForeignKey ==
    /\ validated # <<>>
    /\ validated[Len(validated)].code = ""
    /\ routed = NotRouted
    /\ routed' = route_foreignkey_related(foreign_key_field,
                                          validated[Len(validated)].data)
    /\ UNCHANGED <<read_side, write_side, foreign_key_field, validated, save_side, settings_side, serializer_side, request_side>>

NextForeignKey ==
    \/ \E accept_pk \in BOOLEAN, accept_pk_only \in BOOLEAN :
           DeclareForeignKeyField(accept_pk, accept_pk_only)
    \/ \E data \in ForeignKeyData : ValidateForeignKey(data)
    \/ SaveForeignKey

SpecForeignKey == Init /\ [][NextForeignKey]_vars

(***************************************************************************)
(* A payload for a to-many nested field is validated and saved by create   *)
(* or update of the parent serializer.                                     *)
(***************************************************************************)
Renamed == <<[key |-> "title", value |-> "u"]>>
\* the entries a client writes in a payload that is saved
EntriesSaved ==
    {[key |-> ADD, value |-> OpValues(FALSE, <<1>>, <<>>)],
     [key |-> ADD, value |-> OpValues(FALSE, <<1, 2>>, <<>>)],
     [key |-> CREATE, value |-> OpValues(FALSE, <<>>, <<Title>>)],
     [key |-> REMOVE, value |-> OpValues(TRUE, <<>>, <<>>)],
     [key |-> REMOVE, value |-> OpValues(FALSE, <<1>>, <<>>)],
     [key |-> UPDATE, value |-> OpValues(FALSE, <<1>>, <<Renamed>>)],
     [key |-> UPDATE, value |-> OpValues(FALSE, <<2, 1>>, <<Renamed, Renamed>>)]}

\* the root serializers of a POST and of a PUT or PATCH
RootSerializers ==
    {[root_has_instance |-> FALSE, parent_operation |-> ""],
     [root_has_instance |-> TRUE, parent_operation |-> ""]}

\* the relation of the field and the objects related to the instance when
\* the request arrives
StoreRelated(kind, related) ==
    /\ relation = NoRelation
    /\ relation' = Relation(kind, related)
    /\ db' = Db(StoredObjects, related, 2)
    /\ UNCHANGED <<read_side, write_side, foreign_key_side, validated_data, saved, settings_side, serializer_side, request_side>>

\* serializer.save() of a POST: NestedCreateMixin.create
Create ==
    /\ relation # NoRelation
    /\ relation.related = {}
    /\ validation.outcome = Valid
    /\ ~validation.root_has_instance
    /\ saved = NotSaved
    /\ db' = create(relation.kind, db, ValidatedData(payload)).db
    /\ validated_data' = ValidatedData(create(relation.kind, db,
                                               ValidatedData(payload)).values)
    /\ saved' = Saved(create(relation.kind, db, ValidatedData(payload)).code)
    /\ UNCHANGED <<read_side, write_side, foreign_key_side, relation, settings_side, serializer_side, request_side>>

\* serializer.save() of a PUT or PATCH: NestedUpdateMixin.update
Update ==
    /\ relation # NoRelation
    /\ validation.outcome = Valid
    /\ validation.root_has_instance
    /\ saved = NotSaved
    /\ db' = update(relation.kind, db, ValidatedData(payload)).db
    /\ validated_data' = ValidatedData(update(relation.kind, db,
                                               ValidatedData(payload)).values)
    /\ saved' = Saved(update(relation.kind, db, ValidatedData(payload)).code)
    /\ UNCHANGED <<read_side, write_side, foreign_key_side, relation, settings_side, serializer_side, request_side>>

NextNestedSave ==
    \/ DeclareNestedField(CREATE_OPERATIONS, UPDATE_OPERATIONS, TRUE)
    \/ \E entry \in EntriesSaved : WriteOperation(entry)
    \/ \E parent \in RootSerializers : ValidateNestedField(parent)
    \/ \E kind \in {"many_to_many", "many_to_one"}, related \in SUBSET StoredPks :
           StoreRelated(kind, related)
    \/ Create
    \/ Update

SpecNestedSave == Init /\ [][NextNestedSave]_vars

(***************************************************************************)
(* Settings are read, and changed the way django.test.override_settings    *)
(* changes them: the setting is replaced and setting_changed is sent.      *)
(***************************************************************************)
\* the RESTQL dicts a project defines
UserSettings ==
    { <<>>,
      << [key |-> "QUERY_PARAM_NAME", value |-> "q"] >>,
      << [key |-> "QUERY_PARAM_NAME", value |-> "query"] >>,
      << [key |-> "AUTO_APPLY_EAGER_LOADING", value |-> "False"] >>,
      << [key |-> "QUERY_PARAM_NAME", value |-> "q"],
         [key |-> "AUTO_APPLY_EAGER_LOADING", value |-> "False"] >> }
\* the attributes read; UNKNOWN is no setting
AttrsRead == {"QUERY_PARAM_NAME", "AUTO_APPLY_EAGER_LOADING", "UNKNOWN"}

\* restql_settings.<attr> is read
ReadSetting(attr) ==
    /\ restql_settings' = getattr(restql_settings, attr, django_settings).self
    /\ read' = [attr |-> attr,
                val |-> getattr(restql_settings, attr, django_settings).val,
                raised |-> getattr(restql_settings, attr, django_settings).raised]
    /\ signalled' = ""
    /\ UNCHANGED <<request_side, serializer_side, read_side, write_side, foreign_key_side, save_side, django_settings>>

\* RESTQL is overridden with `value`; setting_changed(setting="RESTQL")
ChangeRESTQL(value) ==
    /\ django_settings' = value
    /\ restql_settings' = reload_restql_settings(restql_settings, "RESTQL")
    /\ signalled' = "RESTQL"
    /\ UNCHANGED <<request_side, serializer_side, read_side, write_side, foreign_key_side, save_side, read>>

\* another setting is overridden; setting_changed(setting="DEBUG")
ChangeOtherSetting ==
    /\ restql_settings' = reload_restql_settings(restql_settings, "DEBUG")
    /\ signalled' = "DEBUG"
    /\ UNCHANGED <<request_side, serializer_side, read_side, write_side, foreign_key_side, save_side, django_settings,
                   read>>

NextSettings ==
    \/ \E attr \in AttrsRead : ReadSetting(attr)
    \/ \E value \in UserSettings : ChangeRESTQL(value)
    \/ ChangeOtherSetting

SpecSettings == Init /\ [][NextSettings]_vars

(***************************************************************************)
(* A serializer constructed with the `fields` or the `exclude` kwarg.      *)
(***************************************************************************)
\* the kwargs a serializer with the fields a, b, d is constructed with:
\* fields=["a", "b"], fields=["b", "c"], exclude=["a"], exclude=["c"]
KwargsGiven ==
    {Kwargs(Given({"a", "b"}), NotGiven), Kwargs(Given({"b", "c"}), NotGiven),
     Kwargs(NotGiven, Given({"a"})), Kwargs(NotGiven, Given({"c"}))}

\* DynamicFieldsMixin.__init__ with kwargs, and the first read of
\* allowed_fields, which the cached_property keeps: the fields left, or
\* FieldNotFound for a name the serializer does not declare
ConstructSerializer(kwargs) ==
    /\ pc = "writing"
    /\ written = NoBlock
    /\ NoKwargs
    /\ ~(kwargs.fields # NotGiven /\ kwargs.exclude # NotGiven)
    /\ dynamic_fields_mixin_kwargs' = kwargs
    /\ allowed_fields' = AllowedFields(kwargs, SerializerFields).fields
    /\ pc' = IF AllowedFields(kwargs, SerializerFields).raised # ""
             THEN "field_not_found" ELSE pc
    /\ UNCHANGED <<written, depth, query, parsed, selected, derived, write_side,
                   foreign_key_side, save_side, settings_side, request_side>>

\* the names and the aliases a client writes to such a serializer
KwargsNames == {"a", "b", "d"}
KwargsAliases == {"", "a"}

NextKwargs ==
    \/ \E kwargs \in KwargsGiven : ConstructSerializer(kwargs)
    \/ \E name \in KwargsNames, alias \in KwargsAliases : WriteField(name, alias)
    \/ \E name \in KwargsNames : WriteExcluded(name, FALSE)
    \/ WriteAllFields
    \/ \E name \in {"a", "b"}, alias \in KwargsAliases : OpenBlock(name, alias, FALSE)
    \/ CloseBlock
    \/ Parse(<<",">>, FALSE)
    \/ SendWithoutQuery
    \/ SelectFields

SpecKwargs == Init /\ [][NextKwargs]_vars

(***************************************************************************)
(* One request through the three mixins: the view injects the query        *)
(* parameters on dispatch, get_queryset chooses the relations to load and  *)
(* serializers compute their fields, each asking the request for the       *)
(* parsed query.                                                           *)
(***************************************************************************)
\* restql_settings.QUERY_PARAM_NAME: the value and the settings object after
\* the read
QUERY_PARAM_NAME == getattr(restql_settings, "QUERY_PARAM_NAME", django_settings)

\* the project names the query parameter `a`
ProjectSettings == << [key |-> "QUERY_PARAM_NAME", value |-> "a"] >>

ConfigureProject ==
    /\ pc = "writing"
    /\ written = NoBlock
    /\ django_settings = <<>>
    /\ ChangeRESTQL(ProjectSettings)

\* the client sends the text written as the query parameter of a request
Send ==
    /\ pc = "writing"
    /\ query' = Render(written, <<",">>, FALSE)
    /\ request' = Request(<< [key |-> QUERY_PARAM_NAME.val, value |-> <<query'>>] >>)
    /\ depth' = 0
    /\ pc' = "sent"
    /\ UNCHANGED <<written, parsed, allowed_fields, selected, derived, parses, calls,
                   write_side, foreign_key_side, save_side, settings_side,
                   serializer_side>>

\* QueryArgumentsMixin.dispatch: inject_query_params_in_req, before anything
\* else reads the request
Dispatch ==
    LET injected(got) ==
            /\ parsed' = got.parsed
            /\ parses' = parses \o got.parses
            /\ query_params' = build_query_params(get_parsed_restql_query, "")'
            /\ request' = inject_query_params_in_req(got.request, query_params')
    IN  /\ pc = "sent"
        /\ calls = 0
        /\ calls' = 1
        /\ restql_settings' = QUERY_PARAM_NAME.self
        /\ UNCHANGED <<written, depth, query, allowed_fields, selected, pc, message,
                       nested_selected, related_fields, django_settings, read,
                       signalled, write_side, foreign_key_side, save_side,
                       serializer_side>>
        /\ injected(get_parsed_restql_query_from_req(request, QUERY_PARAM_NAME.val))

\* EagerLoadingMixin.get_queryset: the relations to load are chosen from the
\* Query of the request
GetQueryset ==
    LET loaded(got) ==
            /\ parsed' = got.parsed
            /\ parses' = parses \o got.parses
            /\ request' = got.request
            /\ related_fields' = apply_eager_loading(parsed_restql_query)'
    IN  /\ pc = "sent"
        /\ calls < MaxCalls
        /\ calls' = calls + 1
        /\ restql_settings' = QUERY_PARAM_NAME.self
        /\ UNCHANGED <<written, depth, query, allowed_fields, selected, pc, message,
                       nested_selected, query_params, django_settings, read,
                       signalled, write_side, foreign_key_side, save_side,
                       serializer_side>>
        /\ loaded(get_parsed_restql_query_from_req(request, QUERY_PARAM_NAME.val))

\* DynamicFieldsMixin.dynamic_fields of a root serializer constructed for
\* the request
ComputeDynamicFields ==
    LET computed(got) ==
            /\ parsed' = got.parsed
            /\ parses' = parses \o got.parses
            /\ request' = got.request
            /\ selected' = dynamic_fields(SerializerFields)'.selected
            /\ message' = dynamic_fields(SerializerFields)'.message
            /\ allowed_fields' = selected'.all_fields
    IN  /\ pc = "sent"
        /\ calls < MaxCalls
        /\ calls' = calls + 1
        /\ restql_settings' = QUERY_PARAM_NAME.self
        /\ UNCHANGED <<written, depth, query, pc, nested_selected, query_params,
                       related_fields, django_settings, read, signalled, write_side,
                       foreign_key_side, save_side, serializer_side>>
        /\ computed(get_parsed_restql_query_from_req(request, QUERY_PARAM_NAME.val))

NextCache ==
    \/ ConfigureProject
    \/ WriteField("b", "")
    \/ WriteField("a", "a")
    \/ \E minus \in BOOLEAN : OpenBlock("b", "", minus)
    \/ CloseBlock
    \/ WriteArgument("a", <<"1">>)
    \/ Send
    \/ Dispatch
    \/ GetQueryset
    \/ ComputeDynamicFields

SpecCache == Init /\ [][NextCache]_vars

(***************************************************************************)
(* What was written, read off the tree `written`.                          *)
(***************************************************************************)
RECURSIVE BlocksOf(_)
\* a block and all the blocks nested in it
BlocksOf(block) ==
    {block} \cup UNION {BlocksOf(block.items[i].sub[1]) :
                           i \in {j \in DOMAIN block.items : block.items[j].sub # <<>>}}

ItemSet(block) == {block.items[i] : i \in DOMAIN block.items}

IsExcluded(item) == item.kind = "excluded"
IsAliased(item) == item.kind = "field" /\ item.alias # ""

\* every exclusion is written `-name`, without whitespace and without block
WellFormed(block) ==
    \A b \in BlocksOf(block) : \A item \in ItemSet(b) :
        IsExcluded(item) => ~item.gap /\ item.sub = <<>>

\* the names that were given an alias in a block, and the aliases in force
\* (the later of two aliases of one name replaces the earlier)
AliasedNames(block) == {item.name : item \in {x \in ItemSet(block) : IsAliased(x)}}
AliasesGiven(block) ==
    {block.items[i].alias :
        i \in {j \in DOMAIN block.items :
                  /\ IsAliased(block.items[j])
                  /\ \A l \in DOMAIN block.items :
                        l > j /\ IsAliased(block.items[l])
                            => block.items[l].name # block.items[j].name}}

HasAliasCollision(block) == AliasedNames(block) \cap AliasesGiven(block) # {}

RECURSIVE Levels(_)
\* a Query and all the Queries nested in it
Levels(q) ==
    {q} \cup UNION {Levels(q.included_fields[i].query[1]) :
                       i \in {j \in DOMAIN q.included_fields : IsQuery(q.included_fields[j])}}

Included(q) == {q.included_fields[i] : i \in DOMAIN q.included_fields}

ParsedOk == pc = "parsed" /\ parsed.raised = ""

(***************************************************************************)
(* C1  When, in some block of an otherwise well-formed query, a name is    *)
(* both a field that was given an alias and an alias given to a field,     *)
(* parse raises QueryFormatError and returns no Query, at the root and in  *)
(* a nested block alike.                                                   *)
(***************************************************************************)
C1_AliasCollisionRaises ==
    (pc = "parsed" /\ WellFormed(written)
        /\ \E b \in BlocksOf(written) : HasAliasCollision(b))
    => parsed = Raised("QueryFormatError")

\* a collision in a nested block, inside a root block that has none
C1_Witness ==
    /\ pc = "parsed"
    /\ WellFormed(written)
    /\ ~HasAliasCollision(written)
    /\ \E b \in BlocksOf(written) \ {written} : HasAliasCollision(b)
    /\ parsed = Raised("QueryFormatError")

(***************************************************************************)
(* C2  When the alias given to one field is the name of another field that *)
(* is included without an alias in the same block, parse raises            *)
(* QueryFormatError.                                                       *)
(***************************************************************************)
AliasOfUnaliasedField(block) ==
    \E i, j \in DOMAIN block.items :
        /\ i # j
        /\ block.items[i].kind = "field"
        /\ block.items[i].alias = ""
        /\ IsAliased(block.items[j])
        /\ block.items[j].alias = block.items[i].name

C2_AliasOfIncludedFieldRaises ==
    (pc = "parsed" /\ WellFormed(written)
        /\ \E b \in BlocksOf(written) : AliasOfUnaliasedField(b))
    => parsed = Raised("QueryFormatError")

(***************************************************************************)
(* C3  In every Query that parse produces, at the root and at every nested *)
(* level: when excluded_fields is not empty, "*" is in included_fields,    *)
(* written or not; when the block has no exclusion and no `*`, "*" is not  *)
(* in included_fields.                                                     *)
(***************************************************************************)
RECURSIVE WildcardRule(_, _)
WildcardRule(q, block) ==
    LET parents == SelectSeq(block.items, LAMBDA item : item.sub # <<>>)
        nested == SelectSeq(q.included_fields, IsQuery)
    IN  /\ q.excluded_fields # <<>> => FlatField("*") \in Included(q)
        /\ (\A item \in ItemSet(block) : item.kind = "field")
               => FlatField("*") \notin Included(q)
        /\ Len(nested) = Len(parents)
        /\ \A i \in DOMAIN nested : WildcardRule(nested[i].query[1], parents[i].sub[1])

C3_ExclusionImpliesWildcard == ParsedOk => WildcardRule(parsed.query, written)

\* a nested block with an exclusion and no `*` written: "*" is there
C3_Witness ==
    /\ ParsedOk
    /\ \E i \in DOMAIN written.items :
          /\ written.items[i].sub # <<>>
          /\ \E item \in ItemSet(written.items[i].sub[1]) : IsExcluded(item)
          /\ \A item \in ItemSet(written.items[i].sub[1]) : item.kind # "all"
    /\ \E q \in Levels(parsed.query) \ {parsed.query} :
          q.excluded_fields # <<>> /\ FlatField("*") \in Included(q)

(***************************************************************************)
(* C4  As claimed: in every Query that parse produces, when                *)
(* excluded_fields is not empty, included_fields holds only nested Queries *)
(* and "*", never a flat field name.                                       *)
(***************************************************************************)
C4_NoFlatFieldBesideExclusion ==
    ParsedOk =>
        \A q \in Levels(parsed.query) :
            q.excluded_fields # <<>> =>
                \A field \in Included(q) : IsQuery(field) \/ field = FlatField("*")

(***************************************************************************)
(* C4, amended  In every Query that parse produces, when excluded_fields   *)
(* is not empty, included_fields holds the flat names and the nested       *)
(* Queries written in the block, in the order written, and "*": where it   *)
(* was written, or else added at the end.                                  *)
(***************************************************************************)
RECURSIVE IncludedBesideExclusion(_, _)
IncludedBesideExclusion(q, block) ==
    LET kept == SelectSeq(block.items, LAMBDA item : ~IsExcluded(item))
        parents == SelectSeq(block.items, LAMBDA item : item.sub # <<>>)
        nested == SelectSeq(q.included_fields, IsQuery)
        star_written == \E item \in ItemSet(block) : item.kind = "all"
    IN  /\ q.excluded_fields # <<>> =>
              /\ Len(q.included_fields) = Len(kept) + (IF star_written THEN 0 ELSE 1)
              /\ \A i \in DOMAIN kept :
                    /\ q.included_fields[i].name = kept[i].name
                    /\ IsQuery(q.included_fields[i]) <=> kept[i].sub # <<>>
              /\ ~star_written => q.included_fields[Len(kept) + 1] = FlatField("*")
        /\ Len(nested) = Len(parents)
        /\ \A i \in DOMAIN nested :
              IncludedBesideExclusion(nested[i].query[1], parents[i].sub[1])

C4_FlatFieldsKeptBesideExclusion ==
    ParsedOk => IncludedBesideExclusion(parsed.query, written)

\* `{name, -age}`: a flat name, an exclusion, and "*" added after the name
C4_Witness ==
    /\ ParsedOk
    /\ parsed.query.excluded_fields # <<>>
    /\ Len(parsed.query.included_fields) = 2
    /\ ~IsQuery(parsed.query.included_fields[1])
    /\ parsed.query.included_fields[1] # FlatField("*")
    /\ parsed.query.included_fields[2] = FlatField("*")

(***************************************************************************)
(* C5  For each block of a query that parses, the Query has: in            *)
(* included_fields the items that are not exclusions, in the order         *)
(* written (a field as its name, `*` as "*", a field with a block as the   *)
(* child Query, whose field_name is the field's name and not its alias),   *)
(* then "*" if it was added; in excluded_fields the excluded names in the  *)
(* order written; in aliases the names written with an alias, each mapped  *)
(* to its alias (to the later one when it was written twice).  The root    *)
(* field_name is None.                                                     *)
(***************************************************************************)
RECURSIVE Matches(_, _, _)
Matches(q, block, field_name) ==
    LET kept == SelectSeq(block.items, LAMBDA item : ~IsExcluded(item))
        excluded == SelectSeq(block.items, IsExcluded)
        star_written == \E item \in ItemSet(block) : item.kind = "all"
        added == IF excluded # <<>> /\ ~star_written THEN 1 ELSE 0
    IN  /\ q.field_name = field_name
        /\ q.excluded_fields = [i \in DOMAIN excluded |-> excluded[i].name]
        /\ Len(q.included_fields) = Len(kept) + added
        /\ \A i \in DOMAIN kept :
              IF kept[i].sub = <<>>
              THEN q.included_fields[i] = FlatField(kept[i].name)
              ELSE /\ IsQuery(q.included_fields[i])
                   /\ q.included_fields[i].name = kept[i].name
                   /\ Matches(q.included_fields[i].query[1], kept[i].sub[1], kept[i].name)
        /\ added = 1 => q.included_fields[Len(kept) + 1] = FlatField("*")
        /\ DictKeys(q.aliases) = AliasedNames(block)
        /\ \A i \in DOMAIN block.items :
              (/\ IsAliased(block.items[i])
               /\ \A l \in DOMAIN block.items :
                     l > i /\ IsAliased(block.items[l])
                         => block.items[l].name # block.items[i].name)
              => DictGet(q.aliases, block.items[i].name, "") = block.items[i].alias

C5_QueryMirrorsText == ParsedOk => Matches(parsed.query, written, "")

\* an aliased field with a block that is not empty
C5_Witness ==
    /\ ParsedOk
    /\ written.items # <<>>
    /\ IsAliased(written.items[1])
    /\ written.items[1].sub # <<>>
    /\ written.items[1].sub[1].items # <<>>
    /\ parsed.query.included_fields[1].query[1].field_name = written.items[1].name
    /\ parsed.query.aliases # <<>>

(***************************************************************************)
(* C6  The arguments written before a block are in the `arguments` of the  *)
(* Query of that block and of no other: each Query has exactly the         *)
(* arguments of its own block, decoded, and its included_fields,           *)
(* excluded_fields and aliases are those of the items alone.               *)
(***************************************************************************)
\* the two values written: 1 and 's'
ValueWritten(raw) == IF raw = <<"1">> THEN PyInt(1) ELSE PyStr("s")

RECURSIVE OwnArguments(_, _)
OwnArguments(q, block) ==
    LET parents == SelectSeq(block.items, LAMBDA item : item.sub # <<>>)
        nested == SelectSeq(q.included_fields, IsQuery)
    IN  /\ DictKeys(q.arguments) = {block.args[i].name : i \in DOMAIN block.args}
        /\ \A i \in DOMAIN block.args :
              (\A l \in DOMAIN block.args : l > i => block.args[l].name # block.args[i].name)
              => DictGet(q.arguments, block.args[i].name, PyNone)
                     = ValueWritten(block.args[i].raw)
        /\ Len(nested) = Len(parents)
        /\ \A i \in DOMAIN nested : OwnArguments(nested[i].query[1], parents[i].sub[1])

C6_ArgumentsStayOnTheirBlock ==
    pc = "parsed" =>
        /\ parsed.raised = ""
        /\ OwnArguments(parsed.query, written)
        /\ Matches(parsed.query, written, "")

\* an argument named like a field, on a nested block only
C6_Witness ==
    /\ ParsedOk
    /\ written.args = <<>>
    /\ parsed.query.arguments = <<>>
    /\ \E i \in DOMAIN written.items :
          /\ written.items[i].sub # <<>>
          /\ written.items[i].sub[1].args # <<>>
          /\ written.items[i].sub[1].args[1].name = written.items[i].name
          /\ parsed.query.included_fields[i].query[1].arguments # <<>>

(***************************************************************************)
(* C7  The value of an argument `a: <raw>`: the raw text true, false or    *)
(* null gives True, False or None; a number gives an int when it is        *)
(* written as an integer ([-+]digits) and a float of the same value when   *)
(* it has a fraction; a text in single or double quotes, in which a        *)
(* backslash escapes the character after it, gives the characters between  *)
(* the quotes as written; any other raw text makes parse raise             *)
(* SyntaxError.                                                            *)
(***************************************************************************)
Signed(raw) == raw # <<>> /\ raw[1] \in {"-", "+"}
Unsigned(raw) == IF Signed(raw) THEN Tail(raw) ELSE raw
SignOf(raw) == IF raw # <<>> /\ raw[1] = "-" THEN -1 ELSE 1
AllDigits(t) == \A i \in DOMAIN t : t[i] \in Digits

IsIntegerLiteral(raw) == Unsigned(raw) # <<>> /\ AllDigits(Unsigned(raw))

\* digits, a point, and at least one digit
IsFractionLiteral(raw) ==
    \E d \in DOMAIN Unsigned(raw) :
        /\ Unsigned(raw)[d] = "."
        /\ d < Len(Unsigned(raw))
        /\ AllDigits(SubSeq(Unsigned(raw), 1, d - 1))
        /\ AllDigits(SubSeq(Unsigned(raw), d + 1, Len(Unsigned(raw))))

RECURSIVE NoBareQuote(_, _, _)
\* in t from position i on, every q and every backslash is behind a backslash
NoBareQuote(t, i, q) ==
    IF i > Len(t) THEN TRUE
    ELSE IF t[i] = "\\" THEN i < Len(t) /\ NoBareQuote(t, i + 2, q)
    ELSE t[i] # q /\ NoBareQuote(t, i + 1, q)

IsQuoted(raw) ==
    /\ Len(raw) >= 2
    /\ raw[1] \in {"\"", "'"}
    /\ raw[Len(raw)] = raw[1]
    /\ NoBareQuote(SubSeq(raw, 2, Len(raw) - 1), 1, raw[1])

RawValue == written.args[1].raw
ParsedValue == parsed.query.arguments[1].value

C7_ArgumentValueDecoding ==
    pc = "parsed" =>
        IF RawValue = <<"t", "r", "u", "e">>
        THEN parsed.raised = "" /\ ParsedValue = PyBool(TRUE)
        ELSE IF RawValue = <<"f", "a", "l", "s", "e">>
        THEN parsed.raised = "" /\ ParsedValue = PyBool(FALSE)
        ELSE IF RawValue = <<"n", "u", "l", "l">>
        THEN parsed.raised = "" /\ ParsedValue = PyNone
        ELSE IF IsIntegerLiteral(RawValue)
        THEN /\ parsed.raised = ""
             /\ ParsedValue.type = "int"
             /\ ParsedValue.num
                    = SignOf(RawValue) * DigitsValue(Unsigned(RawValue), 1, Len(Unsigned(RawValue)) + 1)
        ELSE IF IsFractionLiteral(RawValue)
        THEN LET u == Unsigned(RawValue)
                 d == CHOOSE x \in DOMAIN u : u[x] = "."
                 places == Len(u) - d
             IN  /\ parsed.raised = ""
                 /\ ParsedValue.type = "float"
                 \* num / 10^scale is the number written
                 /\ ParsedValue.num * Pow10(places)
                        = SignOf(RawValue) * Pow10(ParsedValue.scale)
                            * (DigitsValue(u, 1, d) * Pow10(places) + DigitsValue(u, d + 1, Len(u) + 1))
        ELSE IF IsQuoted(RawValue)
        THEN /\ parsed.raised = ""
             /\ ParsedValue = PyStr(Join(RawValue, 2, Len(RawValue)))
        ELSE parsed = Raised("SyntaxError")

\* "\"" : a quoted text holding an escaped quote
C7_Witness ==
    /\ pc = "parsed"
    /\ RawValue = <<"\"", "\\", "\"", "\"">>
    /\ parsed.raised = ""
    /\ ParsedValue.type = "str"

(***************************************************************************)
(* C8  A query in which a `-` is followed by whitespace, or in which an    *)
(* excluded name is followed by a block, makes parse raise SyntaxError.    *)
(***************************************************************************)
C8_ExclusionSyntax ==
    (pc = "parsed" /\ ~WellFormed(written)) => parsed = Raised("SyntaxError")

\* `-name{...}` in a nested block, and no `-` followed by whitespace
C8_Witness ==
    /\ pc = "parsed"
    /\ \A b \in BlocksOf(written) : \A item \in ItemSet(b) : ~item.gap
    /\ \E b \in BlocksOf(written) \ {written} : \E item \in ItemSet(b) :
          IsExcluded(item) /\ item.sub # <<>>
    /\ parsed = Raised("SyntaxError")

(***************************************************************************)
(* C9  The result of parse is the same whether the items of a block and    *)
(* the arguments of an argument block are separated by commas or by        *)
(* whitespace, with or without a comma before the closing `}` or `)`.      *)
(***************************************************************************)
C9_SeparatorStyle ==
    pc = "parsed" =>
        /\ parsed.raised = ""
        /\ parsed = parse(Render(written, <<",">>, FALSE))

\* two arguments and two items separated by whitespace, with trailing commas
C9_Witness ==
    /\ ParsedOk
    /\ Len(written.args) = 2
    /\ Len(written.items) = 2
    /\ query = Render(written, <<" ">>, TRUE)
    /\ Len(parsed.query.arguments) = 2
    /\ Len(parsed.query.included_fields) = 2

(***************************************************************************)
(* C10  select_fields on a Query with included fields, without "*" and     *)
(* without exclusions: when it returns, the keys of the fields returned    *)
(* are the alias of each included field that has one and the name of each  *)
(* that has none, each key is mapped to the serializer field of that name, *)
(* and no other key is there.                                              *)
(***************************************************************************)
OutputName(q, field) == DictGet(q.aliases, field.name, field.name)

C10_SelectedFields ==
    (/\ pc = "selected"
     /\ selected.raised = ""
     /\ parsed.query.included_fields # <<>>
     /\ FlatField("*") \notin Included(parsed.query)
     /\ parsed.query.excluded_fields = <<>>)
    => /\ DictKeys(selected.fields) = {OutputName(parsed.query, f) : f \in Included(parsed.query)}
       /\ \A f \in Included(parsed.query) :
             /\ DictHas(SerializerFields, f.name)
             /\ DictGet(selected.fields, OutputName(parsed.query, f), <<>>).source = f.name

\* `{c: a}`: the field a is returned under the key c, and a, b are absent
C10_Witness ==
    /\ pc = "selected"
    /\ selected.raised = ""
    /\ parsed.query.excluded_fields = <<>>
    /\ parsed.query.aliases = <<[key |-> "a", value |-> "c"]>>
    /\ DictKeys(selected.fields) = {"c"}
    /\ DictGet(selected.fields, "c", <<>>).source = "a"

(***************************************************************************)
(* C11  select_fields on a Query with exclusions: when it returns, every   *)
(* serializer field that is not excluded is kept under its name, whether   *)
(* or not it is also listed as an included flat field, no excluded name is *)
(* a key of the result, and the sub-query of every nested field listed at  *)
(* that level is recorded under the name the field is output with.         *)
(***************************************************************************)
Excluded(q) == {q.excluded_fields[i] : i \in DOMAIN q.excluded_fields}

SelectedWithExclusions ==
    /\ pc = "selected"
    /\ selected.raised = ""
    /\ parsed.query.excluded_fields # <<>>

C11_ExclusionKeepsTheRest ==
    SelectedWithExclusions
    => /\ \A name \in DictKeys(SerializerFields) \ Excluded(parsed.query) :
             /\ DictHas(selected.fields, name)
             /\ DictGet(selected.fields, name, <<>>).source = name
       /\ DictKeys(selected.fields) \cap Excluded(parsed.query) = {}
       /\ \A f \in {x \in Included(parsed.query) : IsQuery(x)} :
             DictGet(selected.nested, OutputName(parsed.query, f), <<>>) = f.query[1]

\* `{-b, d{}}`: a and d are kept, b is gone, the sub-query of d is recorded
C11_Witness ==
    /\ SelectedWithExclusions
    /\ Excluded(parsed.query) = {"b"}
    /\ DictKeys(selected.fields) = {"a", "d"}
    /\ DictHas(selected.nested, "d")

(***************************************************************************)
(* C12  The root serializer tells absent, empty and wildcard queries       *)
(* apart: without a query it returns all its allowed fields; on `{}` it    *)
(* returns no field; on a query that includes "*" and excludes nothing it  *)
(* returns every allowed field.                                            *)
(***************************************************************************)
\* the result holds the serializer field declared as `name`
Keeps(fields, name) ==
    \E i \in DOMAIN fields : fields[i].value.source = name

QueryAbsent == pc = "selected" /\ query = <<>>
QueryGiven == pc = "selected" /\ query # <<>> /\ parsed.raised = ""

C12_AbsentEmptyWildcard ==
    /\ QueryAbsent => selected.raised = "" /\ selected.fields = SerializerFields
    /\ (QueryGiven /\ written = NoBlock)
           => selected.raised = "" /\ selected.fields = <<>>
    /\ (QueryGiven /\ selected.raised = ""
           /\ FlatField("*") \in Included(parsed.query)
           /\ parsed.query.excluded_fields = <<>>)
           => \A name \in DictKeys(SerializerFields) : Keeps(selected.fields, name)

\* `{*, a}`: every field of the serializer is returned
C12_Witness ==
    /\ QueryGiven
    /\ parsed.query.included_fields = <<FlatField("*"), FlatField("a")>>
    /\ selected.fields = SerializerFields

(***************************************************************************)
(* C13  A nested serializer applies the sub-query written for its field:   *)
(* when the field was written with a block, the serializer is bound to the *)
(* name the field is output with (its alias when it has one), and it       *)
(* applies the Query of that block; when the field was written without a   *)
(* block, or not written and included through "*" or an exclusion, it      *)
(* applies no query and returns all its allowed fields.                    *)
(***************************************************************************)
\* the places in the root block where `name` is written with a block
BlocksWritten(name) ==
    {i \in DOMAIN written.items :
        /\ written.items[i].kind = "field"
        /\ written.items[i].name = name
        /\ written.items[i].sub # <<>>}

Last(indices) == CHOOSE i \in indices : \A j \in indices : j <= i

C13_NestedAppliesItsSubQuery ==
    pc = "nested"
    => IF BlocksWritten(nested_selected.source) = {}
       THEN /\ nested_selected.applied = <<>>
            /\ nested_selected.outcome.raised = ""
            /\ nested_selected.outcome.fields = NestedSerializerFields
       ELSE /\ nested_selected.field_name
                   = DictGet(parsed.query.aliases, nested_selected.source,
                             nested_selected.source)
            /\ nested_selected.applied # <<>>
            /\ Matches(nested_selected.applied[1],
                       written.items[Last(BlocksWritten(nested_selected.source))].sub[1],
                       nested_selected.source)
            /\ nested_selected.outcome
                   = select_fields(nested_selected.applied[1], NestedSerializerFields)

\* `{c: b{a}}`: the serializer nested as b, output as c, returns its field a
C13_Witness ==
    /\ pc = "nested"
    /\ nested_selected.source = "b"
    /\ nested_selected.field_name = "c"
    /\ nested_selected.applied # <<>>
    /\ nested_selected.outcome.raised = ""
    /\ DictKeys(nested_selected.outcome.fields) = {"a"}

(***************************************************************************)
(* C14  select_fields raises a ValidationError whenever, at the level it   *)
(* is applied to, a field is included more than once (flat or with a       *)
(* block), excluded more than once, both included and excluded, or one     *)
(* alias is given to more than one field.                                  *)
(***************************************************************************)
IncludedTwice(block) ==
    \E i, j \in DOMAIN block.items :
        /\ i # j
        /\ block.items[i].kind = "field" /\ block.items[j].kind = "field"
        /\ block.items[i].name = block.items[j].name

ExcludedTwice(block) ==
    \E i, j \in DOMAIN block.items :
        /\ i # j
        /\ IsExcluded(block.items[i]) /\ IsExcluded(block.items[j])
        /\ block.items[i].name = block.items[j].name

IncludedAndExcluded(block) ==
    \E i, j \in DOMAIN block.items :
        /\ block.items[i].kind = "field" /\ IsExcluded(block.items[j])
        /\ block.items[i].name = block.items[j].name

AliasUsedTwice(block) ==
    \E i, j \in DOMAIN block.items :
        /\ IsAliased(block.items[i]) /\ IsAliased(block.items[j])
        /\ block.items[i].alias = block.items[j].alias
        /\ block.items[i].name # block.items[j].name

C14_DuplicatesRaise ==
    (/\ QueryGiven
     /\ \/ IncludedTwice(written) \/ ExcludedTwice(written)
        \/ IncludedAndExcluded(written) \/ AliasUsedTwice(written))
    => selected.raised = "ValidationError"

\* `{c: a, c: b{}}`: one alias for a flat and a nested field is refused
C14_Witness ==
    /\ QueryGiven
    /\ AliasUsedTwice(written)
    /\ ~IncludedTwice(written)
    /\ \E i \in DOMAIN written.items : written.items[i].sub # <<>>
    /\ selected.raised = "ValidationError"
    /\ selected.code = "invalid"

(***************************************************************************)
(* C15  select_fields raises a ValidationError whenever a field is written *)
(* with an alias and, at the same level, is included again or excluded     *)
(* under its own name.                                                     *)
(***************************************************************************)
RenamedAndIncludedAgain(block) ==
    \E i, j \in DOMAIN block.items :
        /\ IsAliased(block.items[i])
        /\ block.items[j].kind = "field" /\ block.items[j].alias = ""
        /\ block.items[j].name = block.items[i].name

RenamedAndExcluded(block) ==
    \E i, j \in DOMAIN block.items :
        /\ IsAliased(block.items[i])
        /\ IsExcluded(block.items[j])
        /\ block.items[j].name = block.items[i].name

C15_RenamedAndWrittenAgainRaises ==
    (QueryGiven /\ (RenamedAndIncludedAgain(written) \/ RenamedAndExcluded(written)))
    => selected.raised = "ValidationError"

\* `{c: a, a}`: the field a, renamed c, is included again and refused
C15_Witness ==
    /\ QueryGiven
    /\ RenamedAndIncludedAgain(written)
    /\ parsed.query.aliases = <<[key |-> "a", value |-> "c"]>>
    /\ selected.raised = "ValidationError"
    /\ selected.code = "invalid"

(***************************************************************************)
(* C16  select_fields raises a ValidationError and returns no selection    *)
(* when a name included, excluded or aliased at the level it is applied to *)
(* is not a field of the serializer, and when a field written with a block *)
(* is not a nested field.  The code is `not_found` in the first case and   *)
(* `invalid` in the second, when the query has no other of the errors      *)
(* select_fields reports.                                                  *)
(***************************************************************************)
MissingName(block) ==
    \E item \in ItemSet(block) :
        item.kind # "all" /\ ~DictHas(SerializerFields, item.name)

BlockOnFlatField(block) ==
    \E item \in ItemSet(block) :
        /\ item.kind = "field" /\ item.sub # <<>>
        /\ DictHas(SerializerFields, item.name)
        /\ ~DictGet(SerializerFields, item.name, <<>>).nested

\* an alias is also the name of an item written without alias
AliasIsWrittenName(block) ==
    \E i, j \in DOMAIN block.items :
        /\ IsAliased(block.items[i])
        /\ block.items[j].kind # "all" /\ ~IsAliased(block.items[j])
        /\ block.items[j].name = block.items[i].alias

Duplicated(block) ==
    \/ IncludedTwice(block) \/ ExcludedTwice(block) \/ IncludedAndExcluded(block)
    \/ AliasUsedTwice(block) \/ AliasIsWrittenName(block)

C16_UnknownAndFlatFieldsRaise ==
    QueryGiven
    => /\ (MissingName(written) \/ BlockOnFlatField(written))
              => selected.raised = "ValidationError" /\ selected.fields = <<>>
       /\ (MissingName(written) /\ ~BlockOnFlatField(written) /\ ~Duplicated(written))
              => selected.code = "not_found"
       /\ (BlockOnFlatField(written) /\ ~MissingName(written) /\ ~Duplicated(written))
              => selected.code = "invalid"

\* `{a{}, -b}`: a block on the flat field a is refused as invalid
C16_Witness ==
    /\ QueryGiven
    /\ BlockOnFlatField(written)
    /\ ~MissingName(written)
    /\ parsed.query.excluded_fields = <<"b">>
    /\ selected.raised = "ValidationError"
    /\ selected.code = "invalid"

(***************************************************************************)
(* C17  build_query_params: an argument `a` of the root block becomes the  *)
(* parameter `a`, an argument `a` of a nested block the parameter          *)
(* `f1__f2__...__fn__a`, f1..fn being the names (not the aliases) of the   *)
(* fields from the root to that block, and there is no other parameter;    *)
(* the value of a parameter is that of the last argument written that      *)
(* becomes it.                                                             *)
(***************************************************************************)
\* the values written: 1, 0 and 's'
Decoded(raw) == IF raw = <<"0">> THEN PyInt(0) ELSE ValueWritten(raw)

RECURSIVE ParamName(_, _)
ParamName(path, argument) ==
    IF path = <<>> THEN argument
    ELSE path[1] \o "__" \o ParamName(Tail(path), argument)

RECURSIVE ArgumentsOf(_, _)
RECURSIVE ArgumentsBelow(_, _)
\* the arguments written in a block and below it, in the order written,
\* each with the name of the parameter it is to become
ArgumentsBelow(items, path) ==
    IF items = <<>> THEN <<>>
    ELSE (IF Head(items).sub = <<>> THEN <<>>
          ELSE ArgumentsOf(Head(items).sub[1], Append(path, Head(items).name)))
         \o ArgumentsBelow(Tail(items), path)
ArgumentsOf(block, path) ==
    [i \in DOMAIN block.args |->
        [key |-> ParamName(path, block.args[i].name), value |-> Decoded(block.args[i].raw)]]
    \o ArgumentsBelow(block.items, path)

Injected == pc = "injected" /\ query # <<>> /\ parsed.raised = ""

ParamsAre(arguments) ==
    /\ DictKeys(query_params) = {arguments[i].key : i \in DOMAIN arguments}
    /\ \A i \in DOMAIN arguments :
          (\A l \in DOMAIN arguments : l > i => arguments[l].key # arguments[i].key)
          => DictGet(query_params, arguments[i].key, PyNone) = arguments[i].value

C17_ParamsNamedByPath == Injected => ParamsAre(ArgumentsOf(written, <<>>))

\* `{a{c: b(a: 0){}}}`: the one parameter is a__b__a
C17_Witness ==
    /\ Injected
    /\ query_params = <<[key |-> "a__b__a", value |-> PyInt(0)]>>

(***************************************************************************)
(* C19  get_dict_parsed_restql_query: the dict of a Query has one key for  *)
(* each name written in the block and the key "*" when `*` is written or   *)
(* implied by an exclusion; an excluded name maps to False, also when it   *)
(* is included as well; a name included without a block and "*" map to     *)
(* True; a name included with a block maps to the dict of that block,      *)
(* under the name of the field and not under its alias.  A name included   *)
(* twice has the value of the later item.                                  *)
(***************************************************************************)
Loaded == pc = "loaded" /\ query # <<>> /\ parsed.raised = ""

RECURSIVE DictMirrors(_, _)
DictMirrors(d, block) ==
    LET excluded == {item.name : item \in {x \in ItemSet(block) : IsExcluded(x)}}
        star == excluded # {} \/ \E item \in ItemSet(block) : item.kind = "all"
    IN  /\ DictKeys(d) = {item.name : item \in ItemSet(block)}
                             \cup (IF star THEN {"*"} ELSE {})
        /\ \A name \in excluded : DictGet(d, name, <<>>) = BoolNode(FALSE)
        /\ star => DictGet(d, "*", <<>>) = BoolNode(TRUE)
        /\ \A i \in DOMAIN block.items :
              (/\ block.items[i].kind = "field"
               /\ block.items[i].name \notin excluded
               /\ \A l \in DOMAIN block.items :
                     l > i /\ block.items[l].kind = "field"
                         => block.items[l].name # block.items[i].name)
              => IF block.items[i].sub = <<>>
                 THEN DictGet(d, block.items[i].name, <<>>) = BoolNode(TRUE)
                 ELSE /\ DictGet(d, block.items[i].name, <<>>).isdict
                      /\ DictMirrors(DictGet(d, block.items[i].name, <<>>).dict,
                                     block.items[i].sub[1])

C19_DictOfQuery == Loaded => DictMirrors(related_fields.query, written)

\* `{c: b{a}}`: the dict is {b: {a: True}}
C19_Witness ==
    /\ Loaded
    /\ parsed.query.aliases = <<[key |-> "b", value |-> "c"]>>
    /\ related_fields.query
           = <<[key |-> "b", value |-> DictNode(<<[key |-> "a", value |-> BoolNode(TRUE)]>>)]>>

(***************************************************************************)
(* C20  get_related_fields returns the related fields of a dotted key      *)
(* f1.f2...fn exactly when every segment is selected at its level: it is   *)
(* not excluded there and it is listed there, or covered by a "*" written  *)
(* or implied there, or it lies below a field included without a block.    *)
(* Without a query every entry of the mappings is returned.                *)
(***************************************************************************)
RECURSIVE SelectedAt(_, _)
\* the segments are selected, from the block on
SelectedAt(block, segments) ==
    LET excluded == {item.name : item \in {x \in ItemSet(block) : IsExcluded(x)}}
        star == excluded # {} \/ \E item \in ItemSet(block) : item.kind = "all"
        listed == {i \in DOMAIN block.items :
                      /\ block.items[i].kind = "field"
                      /\ block.items[i].name = Head(segments)}
    IN  IF segments = <<>> THEN TRUE
        ELSE IF Head(segments) \in excluded THEN FALSE
        ELSE IF listed # {}
        THEN IF block.items[Last(listed)].sub = <<>> THEN TRUE
             ELSE SelectedAt(block.items[Last(listed)].sub[1], Tail(segments))
        ELSE star

RECURSIVE RelatedWanted(_)
\* the related fields of the entries of a mapping whose keys are selected
RelatedWanted(mapping) ==
    IF mapping = <<>> THEN <<>>
    ELSE (IF SelectedAt(written, split(Head(mapping).key, 1, 1))
          THEN Head(mapping).value ELSE <<>>)
         \o RelatedWanted(Tail(mapping))

RECURSIVE AllRelated(_)
AllRelated(mapping) ==
    IF mapping = <<>> THEN <<>> ELSE Head(mapping).value \o AllRelated(Tail(mapping))

C20_RelatedFieldsOfSelectedKeys ==
    /\ Loaded => /\ related_fields.to_select = RelatedWanted(select_related)
                 /\ related_fields.to_prefetch = RelatedWanted(prefetch_related)
    /\ (pc = "loaded" /\ query = <<>>)
           => /\ related_fields.to_select = AllRelated(select_related)
              /\ related_fields.to_prefetch = AllRelated(prefetch_related)

\* `{b{a}}`: b and b.a are loaded, a is not
C20_Witness ==
    /\ Loaded
    /\ parsed.query.excluded_fields = <<>>
    /\ FlatField("*") \notin Included(parsed.query)
    /\ related_fields.to_select = <<"b">>
    /\ related_fields.to_prefetch = <<"b__a">>

(***************************************************************************)
(* C18: a query text that fails to parse is reported by the root           *)
(* serializer only.                                                        *)
(***************************************************************************)
ParseFailed == query # <<>> /\ parsed.raised \in {"SyntaxError", "QueryFormatError"}

\* what apply_eager_loading returns for the include-all query
AllRelationsLoaded ==
    [query |-> <<[key |-> "*", value |-> BoolNode(TRUE)]>>,
     to_select |-> AllRelated(select_related),
     to_prefetch |-> AllRelated(prefetch_related)]

\* C18: when the query text of the request fails to parse with a SyntaxError
\* or a QueryFormatError, injecting the query parameters adds no parameter,
\* eager loading loads every mapped relation, as for the include-all query
\* without arguments, and the root serializer alone reports the failure: it
\* raises a ValidationError of code "invalid" whose message is
\* "QuerySyntaxError: " followed by the message of the error, " on " and the
\* offending text, or "QueryFormatError: " followed by the error
C18_ParseFailureReportedBySerializer ==
    ParseFailed =>
        /\ query_params = <<>>
        /\ pc = "loaded" => related_fields = AllRelationsLoaded
        /\ related_fields \in {NoRelatedFields, AllRelationsLoaded}
        /\ pc # "selected" => message = <<>> /\ selected = NotSelected
        /\ pc = "selected" =>
               /\ selected.raised = "ValidationError"
               /\ selected.code = "invalid"
               /\ parsed.raised = "SyntaxError"
                      => message = <<"QuerySyntaxError: ", "e.msg", " on ", "e.text">>
               /\ parsed.raised = "QueryFormatError"
                      => message = <<"QueryFormatError: ", "str(e)">>

\* `(a: 1){-b{}}` went through the view and the serializer: nothing was
\* injected, every relation was loaded and the serializer raised
C18_Witness ==
    /\ ParseFailed
    /\ parsed.raised = "SyntaxError"
    /\ written.args # <<>>
    /\ pc = "selected"
    /\ query_params = <<>>
    /\ related_fields = AllRelationsLoaded
    /\ selected.raised = "ValidationError"
    /\ message[1] = "QuerySyntaxError: "

(***************************************************************************)
(* C21: the operations of a to-many nested field.                          *)
(***************************************************************************)
Validated == validation.outcome.raised # "none"
PayloadKeys == {payload[i].key : i \in DOMAIN payload}

\* the parent object is being updated, and not created
ParentUpdated == validation.root_has_instance \/ validation.parent_operation = UPDATE

\* the operations permitted for the enclosing operation
PermittedOps == IF ParentUpdated THEN nested_field.update_ops ELSE nested_field.create_ops

DeclarationChecked ==
    nested_field.raised # "none" =>
        IF /\ nested_field.create_ops \subseteq {ADD, CREATE}
           /\ nested_field.update_ops \subseteq {ADD, CREATE, REMOVE, UPDATE}
        THEN nested_field.raised = ""
        ELSE nested_field.raised = "InvalidOperation"

\* the entry is permitted and its values pass their own validation
Passes(entry) ==
    /\ entry.key \in PermittedOps
    /\ operation_2_validation_method(entry.key, entry.value,
                                     nested_field.allow_remove_all) = ""

\* C21 as stated: a payload is accepted only when every key is permitted for
\* the enclosing operation, any other key makes the validation raise
\* ValidationError with code invalid_operation, and a declaration with an
\* operation outside the two sets raises InvalidOperation
C21_OnlyPermittedOperations ==
    /\ DeclarationChecked
    /\ Validated =>
          /\ validation.outcome.raised = "" => PayloadKeys \subseteq PermittedOps
          /\ ~(PayloadKeys \subseteq PermittedOps)
                 => /\ validation.outcome.raised = "ValidationError"
                    /\ validation.outcome.code = "invalid_operation"

\* C21, amended: a payload is accepted only when every key is permitted; the
\* entries are validated in the order of the payload, so a key that is not
\* permitted raises ValidationError with code invalid_operation when every
\* entry before it passes its own validation, and otherwise the first entry
\* that fails raises the ValidationError of its values
C21_FirstFailingEntryDecides ==
    /\ DeclarationChecked
    /\ Validated =>
          /\ validation.outcome.raised = "" <=> \A i \in DOMAIN payload : Passes(payload[i])
          /\ \A i \in DOMAIN payload :
                 (/\ \A j \in 1 .. i - 1 : Passes(payload[j])
                  /\ ~Passes(payload[i]))
                 => IF payload[i].key \in PermittedOps
                    THEN validation.outcome =
                             Invalid(operation_2_validation_method(
                                         payload[i].key, payload[i].value,
                                         nested_field.allow_remove_all),
                                     payload[i].key)
                    ELSE validation.outcome = Invalid("invalid_operation", "")

\* `{add: [1], remove: [2]}` sent for a field of a serializer that creates:
\* remove is refused
C21_Witness ==
    /\ Validated
    /\ ~ParentUpdated
    /\ REMOVE \in nested_field.update_ops
    /\ Len(payload) = 2
    /\ payload[1].key = ADD
    /\ payload[2].key = REMOVE
    /\ validation.outcome = Invalid("invalid_operation", "")

(***************************************************************************)
(* C27: is_replaceable follows the data validated last.                    *)
(***************************************************************************)
LastValidated == validated[Len(validated)]

\* C27: for a field declared with accept_pk=True, after any sequence of
\* validations is_replaceable is TRUE when the data validated last was a
\* primary key and FALSE when it was a dict, and create / update put a value
\* among the replaceable ones exactly when it was given as a primary key
C27_ReplaceableFollowsLastData ==
    (foreign_key_field.accept_pk /\ validated # <<>>) =>
        /\ foreign_key_field.is_replaceable = ~LastValidated.data.isdict
        /\ routed # NotRouted
               => (routed.to = "replaceable" <=> ~LastValidated.data.isdict)

\* a dict and then a primary key were validated and the primary key saved:
\* it went to the writable values, whose serializer refuses it
C27_Witness ==
    /\ foreign_key_field.accept_pk
    /\ Len(validated) = 2
    /\ validated[1].data.isdict
    /\ ~validated[2].data.isdict
    /\ routed = [to |-> "writable", code |-> "invalid"]

(***************************************************************************)
(* C22: create and update leave validated_data as it was.                  *)
(***************************************************************************)
WasSaved == saved # NotSaved

\* C22: after NestedCreateMixin.create or NestedUpdateMixin.update the
\* validated_data of the caller has the keys and the nested values it had
\* before the call: every item of every add, create and update payload
C22_ValidatedDataUnaltered ==
    WasSaved => validated_data = ValidatedData(payload)

\* `{create: [{title}]}` saved on a many-to-one relation: the item in
\* validated_data has got the foreign key
C22_Witness ==
    /\ WasSaved
    /\ relation.kind = "many_to_one"
    /\ Len(payload) = 1
    /\ payload[1].key = CREATE
    /\ DictHas(DictGet(validated_data, "books", <<>>)[1].value.items[1], foreignkey)
    /\ ~DictHas(payload[1].value.items[1], foreignkey)

(***************************************************************************)
(* C30: the operations of a payload are applied in the order of its keys.  *)
(***************************************************************************)
RECURSIVE RelatedAfter(_, _)
\* the related set after the add and remove entries of `data`, each applied
\* on the set the one before left; created objects are not counted
RelatedAfter(related, data) ==
    IF data = <<>> THEN related
    ELSE IF Head(data).key = ADD
    THEN RelatedAfter(related \cup SeqToSet(Head(data).value.pks), Tail(data))
    ELSE IF Head(data).key = REMOVE
    THEN RelatedAfter(IF Head(data).value.all THEN {}
                      ELSE related \ SeqToSet(Head(data).value.pks), Tail(data))
    ELSE RelatedAfter(related, Tail(data))

Updated == WasSaved /\ validation.root_has_instance

\* the primary keys `update` entries reach while they are related
ReachedRelated ==
    UNION {IF payload[i].key = UPDATE
           THEN SeqToSet(payload[i].value.pks)
                    \cap RelatedAfter(relation.related, SubSeq(payload, 1, i - 1))
           ELSE {} : i \in DOMAIN payload}

\* C30: NestedUpdateMixin applies the operations of a payload one after
\* another in the order of its keys, each on what the one before left: the
\* objects related in the end are the ones the add and remove entries leave
\* when applied in that order to the set related before ({add: A, remove: R}
\* leaves (S + A) - R and {remove: R, add: A} leaves (S - R) + A), and an
\* update entry for a primary key that is not related when it is reached
\* leaves that object as it was
C30_OperationsInPayloadOrder ==
    Updated =>
        /\ db.related \cap StoredPks = RelatedAfter(relation.related, payload)
        /\ \A pk \in StoredPks \ ReachedRelated :
               DictHas(db.objects, pk) => DictGet(db.objects, pk, <<>>) = Title

\* `{remove: [1], add: [1]}` on a many-to-many relation where 1 was
\* related: 1 is related in the end
C30_Witness ==
    /\ Updated
    /\ relation.kind = "many_to_many"
    /\ 1 \in relation.related
    /\ Len(payload) = 2
    /\ payload[1].key = REMOVE
    /\ payload[2].key = ADD
    /\ 1 \in db.related

(***************************************************************************)
(* C25: restql_settings returns the current settings.                      *)
(***************************************************************************)
\* the value of a setting now: the user's when defined, else the default
Current(settings, attr) ==
    IF DictHas(settings, attr) THEN DictGet(settings, attr, "")
    ELSE DictGet(DEFAULTS, attr, "")

\* C25: a read of a setting returns the value of the user's RESTQL settings
\* when it is defined there and the default otherwise, also after RESTQL
\* was changed with a setting_changed signal for `RESTQL`: no value cached
\* before the change is returned; a setting_changed signal for another
\* setting leaves the cached values in place
C25_SettingsFollowSignal ==
    [][/\ (signalled' = "" /\ read'.raised = "") => read'.val = Current(django_settings', read'.attr)
       /\ \A attr \in DictKeys(restql_settings'.attrs) :
              DictGet(restql_settings'.attrs, attr, "") = Current(django_settings', attr)
       /\ signalled' = "DEBUG" => restql_settings' = restql_settings]_vars

\* QUERY_PARAM_NAME was read as "query", RESTQL changed to define it as
\* "q", and the read after the change returned "q"
C25_Witness ==
    /\ signalled = ""
    /\ read = [attr |-> "QUERY_PARAM_NAME", val |-> "q", raised |-> ""]
    /\ DictHas(restql_settings.attrs, "AUTO_APPLY_EAGER_LOADING")
    /\ DictGet(django_settings, "QUERY_PARAM_NAME", "") = "q"

(***************************************************************************)
(* C28: a dotted key is followed level by level.                           *)
(***************************************************************************)
\* the entry of prefetch_related with the dotted key `b.a`
DottedEntry == <<prefetch_related[2]>>

\* C28: whether the related fields of the key `b.a` are returned depends
\* only on how b is selected at the top level and how a is selected inside
\* the block of b: the result is the one of the same query without its
\* top-level entry named a
C28_DottedKeyIgnoresTopLevelName ==
    Loaded =>
        get_related_fields(DottedEntry, related_fields.query)
            = get_related_fields(DottedEntry, DictRemove(related_fields.query, {"a"}))

\* `{b{a}, -a}`: a is excluded at the top level and b.a is loaded
C28_Witness ==
    /\ Loaded
    /\ DictHas(related_fields.query, "a")
    /\ ~DictGet(related_fields.query, "a", BoolNode(TRUE)).truth
    /\ related_fields.to_prefetch = <<"b__a">>


(***************************************************************************)
(* C29: dynamic_fields and the serializer's allowed_fields.                *)
(***************************************************************************)
FieldsSelected == pc = "selected"

\* C29: computing dynamic_fields for a query leaves allowed_fields as it
\* was: every field it contained is still in it and no alias key was added,
\* also when select_fields raised a ValidationError.
C29_AllowedFieldsUnchanged ==
    FieldsSelected => DictKeys(allowed_fields) = DictKeys(SerializerFields)

\* fields were selected with a query that parses and keeps every field
\* under its own name: allowed_fields is as declared
C29_Witness ==
    /\ FieldsSelected
    /\ has_restql_query_param
    /\ parsed.raised = ""
    /\ parsed.query.included_fields # <<>>
    /\ selected.raised = ""
    /\ allowed_fields = SerializerFields


(***************************************************************************)
(* C26: a query selects within the allowed fields.                         *)
(***************************************************************************)
\* the declared fields that remain after the kwargs, and the ones removed
Allowed == DictKeys(AllowedFields(dynamic_fields_mixin_kwargs, SerializerFields).fields)
Removed == DictKeys(SerializerFields) \ Allowed

\* the field names a query names at its top level
NamesRemovedField(q) ==
    ({f.name : f \in Included(q)} \cup Excluded(q) \cup DictKeys(q.aliases))
        \cap Removed # {}

\* C26: every field dynamic_fields returns is one of the allowed fields, and
\* a query that names a field removed by the `fields` / `exclude` kwargs is
\* rejected with ValidationError `not_found`.
C26_QueryStaysWithinAllowedFields ==
    FieldsSelected
    => /\ \A i \in DOMAIN selected.fields :
             selected.fields[i].value.source \in Allowed
       /\ (has_restql_query_param /\ parsed.raised = "" /\ NamesRemovedField(parsed.query))
          => (selected.raised = "ValidationError" /\ selected.code = "not_found")

\* exclude=["a"] and the query `{a}`: rejected with not_found
C26_Witness ==
    /\ FieldsSelected
    /\ dynamic_fields_mixin_kwargs = Kwargs(NotGiven, Given({"a"}))
    /\ parsed.raised = ""
    /\ parsed.query.included_fields = <<FlatField("a")>>
    /\ parsed.query.aliases = <<>>
    /\ selected.raised = "ValidationError"
    /\ selected.code = "not_found"


(***************************************************************************)
(* C23: one successful parse for a request.                                *)
(***************************************************************************)
Asked == pc = "sent" /\ calls > 0

\* C23: within one request the text is parsed successfully at most once.
\* When the text sent parses, the parser ran once, for the first call; the
\* Query is stored on the request and every later call of any mixin returns
\* the stored Query, also after request.GET was replaced.  When it does not
\* parse, nothing is stored and every call ran the parser and got the same
\* exception.
C23_ParsedOncePerRequest ==
    Asked =>
        IF parse(query).raised = ""
        THEN /\ parses = <<"">>
             /\ request.parsed_restql_query # <<>>
             /\ parsed = Returned(request.parsed_restql_query[1])
        ELSE /\ request.parsed_restql_query = <<>>
             /\ Len(parses) = calls
             /\ \A i \in DOMAIN parses : parses[i] = parse(query).raised
             /\ parsed = parse(query)

\* `(a: 1){b}` sent as the parameter `a`: dispatch added a=1 to request.GET,
\* whose last value is now the text `1`, and the calls after it returned the
\* stored Query without a run of the parser
C23_Witness ==
    /\ Asked
    /\ calls = 3
    /\ DictHas(request.GET, "a")
    /\ QueryDict_getitem(request.GET, "a") = <<"1">>
    /\ query # <<"1">>
    /\ parses = <<"">>
    /\ parsed.query.arguments # <<>>


(***************************************************************************)
(* C24: the consumers leave the Query as the parser built it.              *)
(***************************************************************************)
Stored == pc = "sent" /\ request.parsed_restql_query # <<>>

====
